---------------------------- MODULE Spec2Model ----------------------------
(***************************************************************************)
(* A model of the TileDB-Vector-Search core: the Vamana graph engine       *)
(* (greedy_search, robust_prune, vamana_index::train / query /             *)
(* write_index / load) and the IVF-Flat build and query.                   *)
(*                                                                         *)
(* Feature vectors are modelled as one-dimensional integer vectors, so the *)
(* squared L2 distance of two vectors a and b is (a - b)^2.  Scores are    *)
(* therefore exact integers; the float alpha is kept in tenths, so that    *)
(* alpha * d <= s reads alpha * d <= 10 * s.                               *)
(***************************************************************************)
EXTENDS Integers, Sequences, FiniteSets, Bags, TLC

(***************************************************************************)
(* Bounds of the model.                                                    *)
(***************************************************************************)
NumNodes == 3       \* number of training vectors
MaxCoord == 2       \* feature values range over 0..MaxCoord
MaxR == 2           \* R_max_degree_ ranges over 0..MaxR
MaxL == 2           \* L_build_ and L range over 1..MaxL
MaxEdges == 2       \* edges of a hand-built graph
MaxParts == 2       \* an IVF index has 1..MaxParts partitions
NumQueries == 2     \* query vectors of an IVF query
MaxTopK == 2        \* k_nn of an IVF query ranges over 1..MaxTopK
MaxIter == 2        \* max_iter_ of the k-means trainer ranges over 0..MaxIter
MaxInserts == 3     \* inserts made into a heap on its own
MaxThreads == 2     \* nthreads ranges over 1..MaxThreads

(***************************************************************************)
(* Program constants.                                                      *)
(***************************************************************************)
alpha_min_ == 10    \* float alpha_min_{1.0}, in tenths
alpha_max_ == 12    \* float alpha_max_{1.2}, in tenths

Nodes == 0 .. (NumNodes - 1)
Coords == 0 .. MaxCoord

VARIABLES
    feature_vectors_,   \* vamana_index::feature_vectors_ : [Nodes -> Coords]
    num_vectors_,       \* vamana_index::num_vectors_
    dimension_,         \* vamana_index::dimension_
    L_build_,           \* vamana_index::L_build_
    R_max_degree_,      \* vamana_index::R_max_degree_
    B_backtrack_,       \* vamana_index::B_backtrack_
    graph_,             \* vamana_index::graph_ : [Nodes -> Seq(<<score, id>>)]
    medioid_,           \* vamana_index::medioid_
    training_set,       \* the argument of train()
    pc,                 \* position of the running operation
    p,                  \* loop variable p of train()
    be,                 \* position of the back-edge loop in out_edges(p)
    gs,                 \* the frame of the running greedy_search
    last_query,         \* what the last greedy_search / query() returned
    group,              \* the TileDB group at group_uri, or NoGroup
    write_result,       \* what the last write_index() returned
    loaded,             \* the index constructed from the group, or NoIndex
    prune_call,         \* the arguments and result of a robust_prune call
    centroids_,         \* kmeans_index::centroids_ : [0..K-1 -> Coords]
    ivf_db,             \* the argument db of kmeans_index::add
    add_frame,          \* the locals of kmeans_index::add
    indices_,           \* kmeans_index::indices_
    shuffled_ids_,      \* kmeans_index::shuffled_ids_
    shuffled_db_,       \* kmeans_index::shuffled_db_
    indices,            \* the index vector read by the query driver
    size_index,         \* whether the driver was given sizes (--sizes_uri)
    ivf_query,          \* the arguments of the IVF query and its probes
    inf_top_k,          \* what the infinite-RAM query returned
    fin_frame,          \* the block position and heaps of the finite-RAM query
    fin_top_k,          \* what the finite-RAM query returned
    back_edge,          \* the last iteration of the back-edge loop of train()
    kmeans_frame,       \* the locals of kmeans_pp / train_no_init
    kmeans_q,           \* the arguments, locals and result of kmeans_query
    heap,               \* a fixed_min_heap of capacity heap_log.k
    heap_log,           \* the capacity and the inserts made into heap
    vq_call             \* the vq_query_heap or qv_query call in progress

indexVars == <<feature_vectors_, num_vectors_, dimension_, L_build_,
               R_max_degree_, B_backtrack_, graph_, medioid_>>
configVars == <<dimension_, num_vectors_, L_build_, R_max_degree_, B_backtrack_>>
trainVars == <<training_set, p, be, back_edge>>

storeVars == <<group, write_result, loaded>>

buildVars == <<centroids_, ivf_db, add_frame, indices_, shuffled_ids_,
               shuffled_db_, indices, size_index>>
ivfQueryVars == <<ivf_query, inf_top_k, fin_frame, fin_top_k>>
flatVars == <<kmeans_frame, kmeans_q, heap, heap_log, vq_call>>
ivfVars == <<buildVars, ivfQueryVars, flatVars>>

vars == <<indexVars, trainVars, pc, gs, last_query, storeVars, prune_call,
          ivfVars>>

(***************************************************************************)
(* Scoring.                                                                *)
(***************************************************************************)
sum_of_squares(a, b) == (a - b) * (a - b)

Min(S) == CHOOSE x \in S : \A y \in S : x <= y
Max(S) == CHOOSE x \in S : \A y \in S : y <= x

(***************************************************************************)
(* k_min_heap: a bounded max-heap of (score, id) pairs, kept as a bag.     *)
(* insert: push while size < capacity; else replace a maximum when the new *)
(* score is below it; else no-op.  With unique_id, an id already resident  *)
(* is rejected.  Which of several maxima of equal score is replaced        *)
(* depends on the heap layout: every choice is an outcome.                 *)
(***************************************************************************)
HeapEntries(h) == BagToSet(h)
HeapIds(h) == {e[2] : e \in BagToSet(h)}
HeapMaxScore(h) == Max({e[1] : e \in BagToSet(h)})
HeapMinScore(h) == Min({e[1] : e \in BagToSet(h)})

\* Faulty variant: a full heap replaces a maximum when the new score is not
\* above it (<= in place of <).
k_min_heap_insert_ReplacesEqual(h, cap, score, id, unique) ==
    IF unique /\ id \in HeapIds(h)
    THEN {[heap |-> h, inserted |-> FALSE]}
    ELSE IF BagCardinality(h) < cap
    THEN {[heap |-> h (+) SetToBag({<<score, id>>}), inserted |-> TRUE]}
    ELSE IF score <= HeapMaxScore(h)
    THEN {[heap |-> (h (-) SetToBag({e})) (+) SetToBag({<<score, id>>}),
           inserted |-> TRUE] :
             e \in {x \in HeapEntries(h) : x[1] = HeapMaxScore(h)}}
    ELSE {[heap |-> h, inserted |-> FALSE]}

k_min_heap_insert(h, cap, score, id, unique) ==
    IF unique /\ id \in HeapIds(h)
    THEN {[heap |-> h, inserted |-> FALSE]}
    ELSE IF BagCardinality(h) < cap
    THEN {[heap |-> h (+) SetToBag({<<score, id>>}), inserted |-> TRUE]}
    ELSE IF score < HeapMaxScore(h)
    THEN {[heap |-> (h (-) SetToBag({e})) (+) SetToBag({<<score, id>>}),
           inserted |-> TRUE] :
             e \in {x \in HeapEntries(h) : x[1] = HeapMaxScore(h)}}
    ELSE {[heap |-> h, inserted |-> FALSE]}

(***************************************************************************)
(* adj_list.                                                               *)
(***************************************************************************)
TargetIds(edges) == {edges[i][2] : i \in 1 .. Len(edges)}

out_degree(g, j) == Len(g[j])

\* add_edge(src, dst, score): appends, ignoring a duplicate target id.
add_edge(g, src, dst, score) ==
    IF dst \in TargetIds(g[src])
    THEN g
    ELSE [g EXCEPT ![src] = Append(@, <<score, dst>>)]

(***************************************************************************)
(* greedy_search.                                                          *)
(***************************************************************************)
\* Faulty variant: the source is put in result but never in q1.
GreedyInit_SkipQ1(db, source, query, k_nn, L) ==
    [source |-> source, query |-> query, k_nn |-> k_nn, L |-> L,
     result |-> SetToBag({<<sum_of_squares(db[source], query), source>>}),
     q1 |-> EmptyBag,
     visited |-> {}]

\* Faulty variant: the source is put in q1 but never in result.
GreedyInit_NoResultInsert(db, source, query, k_nn, L) ==
    [source |-> source, query |-> query, k_nn |-> k_nn, L |-> L,
     result |-> EmptyBag,
     q1 |-> SetToBag({<<sum_of_squares(db[source], query), source>>}),
     visited |-> {}]

\* The state of greedy_search before its while loop.
GreedyInit(db, source, query, k_nn, L) ==
    [source |-> source, query |-> query, k_nn |-> k_nn, L |-> L,
     result |-> SetToBag({<<sum_of_squares(db[source], query), source>>}),
     q1 |-> SetToBag({<<sum_of_squares(db[source], query), source>>}),
     visited |-> {}]

\* The loop over out_edges(p_star): every (result, q2) it can end with.
RECURSIVE ExpandOutcomes(_, _, _, _, _, _, _, _)
ExpandOutcomes(edges, i, db, query, L, visited, result, q2) ==
    IF i > Len(edges)
    THEN {[result |-> result, q2 |-> q2]}
    ELSE LET pn == edges[i][2]
             score == sum_of_squares(db[pn], query)
         IN  IF pn \in visited
             THEN ExpandOutcomes(edges, i + 1, db, query, L, visited, result, q2)
             ELSE UNION {
                    IF o.inserted
                    THEN UNION {ExpandOutcomes(edges, i + 1, db, query, L,
                                               visited, o.heap, o2.heap) :
                                  o2 \in k_min_heap_insert(q2, L, score, pn, FALSE)}
                    ELSE ExpandOutcomes(edges, i + 1, db, query, L, visited,
                                        result, q2) :
                    o \in k_min_heap_insert(result, L, score, pn, TRUE)}

\* Faulty variant: p_star is never put in visited_vertices.
GreedyIterate_NoVisitedInsert(g, db, f) ==
    UNION {
      LET p_star == e[2]
          q2 == [x \in {y \in DOMAIN f.result : y[2] \notin f.visited}
                   |-> f.result[x]]
      IN  {[f EXCEPT !.result = o.result, !.q1 = o.q2] :
             o \in ExpandOutcomes(g[p_star], 1, db, f.query, f.L,
                                  f.visited, f.result, q2)} :
      e \in {x \in HeapEntries(f.q1) : x[1] = HeapMinScore(f.q1)}}

\* Faulty variant: q2 is filled from all of result, visited entries included.
GreedyIterate_UnfilteredFrontier(g, db, f) ==
    UNION {
      LET p_star == e[2]
          q1rest == f.q1 (-) SetToBag({e})
      IN  IF p_star \in f.visited
          THEN {[f EXCEPT !.q1 = q1rest]}
          ELSE LET vis == f.visited \cup {p_star}
               IN  {[f EXCEPT !.result = o.result, !.q1 = o.q2,
                              !.visited = vis] :
                      o \in ExpandOutcomes(g[p_star], 1, db, f.query, f.L,
                                           vis, f.result, f.result)} :
      e \in {x \in HeapEntries(f.q1) : x[1] = HeapMinScore(f.q1)}}

\* One iteration of `while (!q1.empty())`: every frame it can leave.
GreedyIterate(g, db, f) ==
    UNION {
      LET p_star == e[2]
          q1rest == f.q1 (-) SetToBag({e})
      IN  IF p_star \in f.visited
          THEN {[f EXCEPT !.q1 = q1rest]}
          ELSE LET vis == f.visited \cup {p_star}
                   \* q2 <- L \ V : q2 is empty here and holds at most |result| <= L
                   q2 == [x \in {y \in DOMAIN f.result : y[2] \notin vis}
                            |-> f.result[x]]
               IN  {[f EXCEPT !.result = o.result, !.q1 = o.q2,
                              !.visited = vis] :
                      o \in ExpandOutcomes(g[p_star], 1, db, f.query, f.L,
                                           vis, f.result, q2)} :
      e \in {x \in HeapEntries(f.q1) : x[1] = HeapMinScore(f.q1)}}

(***************************************************************************)
(* robust_prune.                                                           *)
(***************************************************************************)
\* V_map after both loops: the candidates v != p of V_in with their distance
\* to p, then the targets pp != p of out_edges(p) not yet present with their
\* stored score (try_emplace keeps the first entry of a key).
RECURSIVE V_map_edges(_, _, _, _)
V_map_edges(edges, i, pnode, m) ==
    IF i > Len(edges) THEN m
    ELSE LET ss == edges[i][1]
             pp == edges[i][2]
         IN  IF pp # pnode /\ pp \notin {x[2] : x \in m}
             THEN V_map_edges(edges, i + 1, pnode, m \cup {<<ss, pp>>})
             ELSE V_map_edges(edges, i + 1, pnode, m)

\* Faulty variant: the test v != p on the candidates of V_in is missing.
V_map_NoSelfCheck(g, db, pnode, V_in) ==
    V_map_edges(g[pnode], 1, pnode,
                {<<sum_of_squares(db[v], db[pnode]), v>> : v \in V_in})

\* Faulty variant: the candidates are V_in without the current neighbors,
\* instead of V_in together with them.
V_map_Difference(g, db, pnode, V_in) ==
    {<<sum_of_squares(db[v], db[pnode]), v>> :
       v \in V_in \ ({pnode} \cup TargetIds(g[pnode]))}

\* Faulty variant: a candidate of V_in is scored by its distance to node 0
\* instead of its distance to p.
V_map_ScoresToFirst(g, db, pnode, V_in) ==
    V_map_edges(g[pnode], 1, pnode,
                {<<sum_of_squares(db[v], db[0]), v>> : v \in V_in \ {pnode}})

V_map(g, db, pnode, V_in) ==
    V_map_edges(g[pnode], 1, pnode,
                {<<sum_of_squares(db[v], db[pnode]), v>> : v \in V_in \ {pnode}})

\* Faulty variant: only the selected node itself leaves V.
AlphaCovers_OnlySelf(db, alpha, p_star, pp, ss) ==
    pp = p_star

\* alpha * distance(db[p_star], db[pp]) <= ss
AlphaCovers(db, alpha, p_star, pp, ss) ==
    alpha * sum_of_squares(db[p_star], db[pp]) <= 10 * ss

\* The while loop of robust_prune: every graph it can leave.  V is filled in
\* the iteration order of an unordered_map, so min_element may return any
\* candidate of minimal score.
RECURSIVE PruneLoop(_, _, _, _, _, _)
PruneLoop(g, db, pnode, V, alpha, R) ==
    IF V = {} THEN {g}
    ELSE UNION {
           LET g2 == add_edge(g, pnode, e[2], e[1])
           IN  IF out_degree(g2, pnode) = R
               THEN {g2}
               ELSE PruneLoop(g2, db, pnode,
                              {x \in V : ~AlphaCovers(db, alpha, e[2], x[2], x[1])
                                         /\ x[2] # pnode},
                              alpha, R) :
           e \in {x \in V : x[1] = Min({y[1] : y \in V})}}

\* Faulty variant: clear() empties the adjacency list of every node.
robust_prune_ClearsGraph(g, db, pnode, V_in, alpha, R) ==
    PruneLoop([n \in DOMAIN g |-> <<>>], db, pnode,
              V_map(g, db, pnode, V_in), alpha, R)

\* robust_prune(graph, db, p, V_in, alpha, R): every graph it can leave.
robust_prune(g, db, pnode, V_in, alpha, R) ==
    PruneLoop([g EXCEPT ![pnode] = <<>>], db, pnode,
              V_map(g, db, pnode, V_in), alpha, R)

(***************************************************************************)
(* medioid.                                                                *)
(***************************************************************************)
RECURSIVE SumTo(_, _)
SumTo(P, n) == IF n = 0 THEN 0 ELSE P[n - 1] + SumTo(P, n - 1)

\* distance(P[i], centroid) scaled by n^2: (n * P[i] - sum)^2
CentroidScore(P, n, i) == (n * P[i] - SumTo(P, n)) * (n * P[i] - SumTo(P, n))

\* The first index of minimal distance to the centroid (score < min_score).
medioid(P, n) ==
    IF n = 0 THEN 0
    ELSE CHOOSE i \in 0 .. (n - 1) :
           /\ \A j \in 0 .. (n - 1) : CentroidScore(P, n, i) <= CentroidScore(P, n, j)
           /\ \A j \in 0 .. (i - 1) : CentroidScore(P, n, j) > CentroidScore(P, n, i)

(***************************************************************************)
(* vamana_index: construction and train().                                 *)
(***************************************************************************)
NoFrame == [source |-> 0, query |-> 0, k_nn |-> 0, L |-> 0,
            result |-> EmptyBag, q1 |-> EmptyBag, visited |-> {}]

NoQuery == [source |-> 0, query |-> 0, k_nn |-> 0, L |-> 0,
            top_k_scores |-> <<>>, top_k |-> <<>>, visited |-> {}]

NoGroup == [exists |-> FALSE]
NoIndex == [exists |-> FALSE]
NoPrune == [p |-> 0, V_in |-> {}, alpha |-> 0, R |-> 0, cands |-> {},
            first |-> <<>>]

\* No iteration of the back-edge loop has run.
NoBackEdge == [exists |-> FALSE]

\* vamana_index(num_nodes, L, R, B): B = 0 stands for L; the graph has
\* num_nodes empty adjacency lists.
Constructed(L, R) ==
    /\ L_build_ = L
    /\ R_max_degree_ = R
    /\ B_backtrack_ = L
    /\ num_vectors_ = NumNodes
    /\ dimension_ = 0
    /\ feature_vectors_ = [n \in Nodes |-> 0]
    /\ graph_ = [n \in Nodes |-> <<>>]
    /\ medioid_ = 0
    /\ p = 0
    /\ be = 1
    /\ back_edge = NoBackEdge
    /\ gs = NoFrame
    /\ last_query = NoQuery
    /\ write_result = "none"
    /\ loaded = NoIndex
    /\ prune_call = NoPrune

\* The variables of the IVF index while only the Vamana index is used.
NoFrameAdd == [parts |-> <<>>, indices |-> <<>>, shuffled_ids |-> <<>>,
               shuffled_db |-> <<>>, i |-> 0]

NoIvfQuery == [q |-> <<>>, nprobe |-> 0, k_nn |-> 0, top_centroids |-> <<>>]
NoBlocks == [blocksize |-> 0, start |-> 0, heaps |-> <<>>]

NoKmeans == [i |-> 0, distances |-> <<>>, iter |-> 0, before |-> <<>>,
             degrees |-> <<>>]
NoKmeansQuery == [called |-> FALSE]
NoHeapLog == [k |-> 0, scores |-> EmptyBag, last |-> <<>>]
NoVqCall == [called |-> FALSE]

FlatUnused ==
    /\ kmeans_frame = NoKmeans
    /\ kmeans_q = NoKmeansQuery
    /\ heap = EmptyBag
    /\ heap_log = NoHeapLog
    /\ vq_call = NoVqCall

IvfNotBuilt ==
    /\ FlatUnused
    /\ add_frame = NoFrameAdd
    /\ indices_ = <<>>
    /\ shuffled_ids_ = <<>>
    /\ shuffled_db_ = <<>>
    /\ indices = <<>>
    /\ size_index = FALSE
    /\ ivf_query = NoIvfQuery
    /\ inf_top_k = <<>>
    /\ fin_frame = NoBlocks
    /\ fin_top_k = <<>>

IvfUnused ==
    /\ centroids_ = <<>>
    /\ ivf_db = <<>>
    /\ IvfNotBuilt

Init ==
    /\ IvfUnused
    /\ \E L \in 1 .. MaxL, R \in 0 .. MaxR : Constructed(L, R)
    /\ training_set \in [Nodes -> Coords]
    /\ pc = "constructed"
    /\ group = NoGroup

\* train(): the copy of the training set, the empty graph, the medioid, and
\* the call of greedy_search for p = 0.
TrainBegin ==
    /\ pc = "constructed"
    /\ feature_vectors_' = training_set
    /\ dimension_' = 1
    /\ num_vectors_' = NumNodes
    /\ graph_' = [n \in Nodes |-> <<>>]
    /\ medioid_' = medioid(training_set, NumNodes)
    /\ p' = 0
    /\ be' = 1
    /\ gs' = GreedyInit(training_set, medioid(training_set, NumNodes),
                        training_set[0], 1, L_build_)
    /\ pc' = "train_search"
    /\ UNCHANGED <<L_build_, R_max_degree_, B_backtrack_, training_set, ivfVars,
                   last_query, storeVars, prune_call, back_edge>>

\* One iteration of the while loop of greedy_search.
GreedyStep ==
    /\ pc \in {"train_search", "query_search", "search"}
    /\ gs.q1 # EmptyBag
    /\ gs' \in GreedyIterate(graph_, feature_vectors_, gs)
    /\ UNCHANGED <<indexVars, trainVars, ivfVars, pc, last_query, storeVars, prune_call>>

\* train(): greedy_search has returned; robust_prune(p, visited).
TrainPrune ==
    /\ pc = "train_search"
    /\ gs.q1 = EmptyBag
    /\ graph_' \in robust_prune(graph_, feature_vectors_, p, gs.visited,
                                alpha_max_, R_max_degree_)
    /\ be' = 1
    /\ pc' = "train_backedges"
    /\ UNCHANGED <<feature_vectors_, configVars, medioid_, training_set, ivfVars, p,
                   gs, last_query, storeVars, prune_call, back_edge>>

\* tmp of the back-edge loop: a vector of out_degree(j) + 1 zeros, then p,
\* then the out-neighbors of j.
RECURSIVE Zeros(_)
Zeros(n) == IF n = 0 THEN <<>> ELSE Append(Zeros(n - 1), 0)

BackEdgeTmp(g, j, pnode) ==
    Zeros(out_degree(g, j) + 1) \o <<pnode>> \o
      [i \in 1 .. Len(g[j]) |-> g[j][i][2]]

SeqRange(s) == {s[i] : i \in 1 .. Len(s)}

\* train(): one iteration of `for (auto&& [i, j] : graph_.out_edges(p))`.
TrainBackEdge ==
    /\ pc = "train_backedges"
    /\ be <= Len(graph_[p])
    /\ LET j == graph_[p][be][2]
           tmp == BackEdgeTmp(graph_, j, p)
       IN  IF Len(tmp) > R_max_degree_
           THEN graph_' \in robust_prune(graph_, feature_vectors_, j,
                                         SeqRange(tmp), alpha_max_,
                                         R_max_degree_)
           ELSE graph_' = add_edge(graph_, j, p,
                                   sum_of_squares(feature_vectors_[p],
                                                  feature_vectors_[j]))
    /\ back_edge' = [exists |-> TRUE,
                     p |-> p,
                     j |-> graph_[p][be][2],
                     out_edges |-> graph_[graph_[p][be][2]],
                     tmp |-> BackEdgeTmp(graph_, graph_[p][be][2], p),
                     pruned |-> Len(BackEdgeTmp(graph_, graph_[p][be][2], p))
                                  > R_max_degree_]
    /\ be' = be + 1
    /\ UNCHANGED <<feature_vectors_, configVars, medioid_, training_set, ivfVars, p,
                   pc, gs, last_query, storeVars, prune_call>>

\* train(): the back-edge loop is over; the next p, or the end of train().
TrainNext ==
    /\ pc = "train_backedges"
    /\ be > Len(graph_[p])
    /\ IF p + 1 < num_vectors_
       THEN /\ p' = p + 1
            /\ gs' = GreedyInit(feature_vectors_, medioid_,
                                feature_vectors_[p + 1], 1, L_build_)
            /\ pc' = "train_search"
       ELSE /\ p' = p
            /\ gs' = NoFrame
            /\ pc' = "trained"
    /\ be' = 1
    /\ back_edge' = NoBackEdge
    /\ UNCHANGED <<indexVars, training_set, ivfVars, last_query, storeVars, prune_call>>

(***************************************************************************)
(* vamana_index::query.                                                    *)
(***************************************************************************)
\* get_top_k_with_scores_from_heap: the entries of the heap in ascending
\* score order; entries of equal score come in any order.
RECURSIVE DrainSorted(_)
DrainSorted(h) ==
    IF h = EmptyBag THEN {<<>>}
    ELSE UNION {{<<e>> \o rest : rest \in DrainSorted(h (-) SetToBag({e}))} :
                  e \in {x \in HeapEntries(h) : x[1] = HeapMinScore(h)}}

\* top_k and top_k_scores are vectors of k_nn zeros that receive the first
\* k_nn drained entries.
get_top_k_with_scores_from_heap(h, k_nn) ==
    {[i \in 1 .. k_nn |-> IF i <= Len(d) THEN d[i] ELSE <<0, 0>>] :
       d \in DrainSorted(h)}

\* Faulty variant: query() keeps its k as the search depth of the index.
Query_StoresDepth ==
    /\ pc = "trained"
    /\ \E q \in Coords, k \in 1 .. L_build_ :
         /\ gs' = GreedyInit(feature_vectors_, medioid_, q, k, L_build_)
         /\ L_build_' = k
    /\ last_query' = NoQuery
    /\ pc' = "query_search"
    /\ UNCHANGED <<feature_vectors_, num_vectors_, dimension_, R_max_degree_,
                   B_backtrack_, graph_, medioid_, trainVars, ivfVars,
                   storeVars, prune_call>>

\* query(query_vector, k): greedy_search from the medioid with L = L_build_.
Query ==
    /\ pc = "trained"
    /\ \E q \in Coords, k \in 1 .. L_build_ :
         gs' = GreedyInit(feature_vectors_, medioid_, q, k, L_build_)
    /\ last_query' = NoQuery
    /\ pc' = "query_search"
    /\ UNCHANGED <<indexVars, trainVars, ivfVars, storeVars, prune_call>>

\* What greedy_search returns once its loop is over: (top_k_scores, top_k,
\* visited_vertices), kept with the arguments of the call.
GreedyResult(f) ==
    {[source |-> f.source, query |-> f.query, k_nn |-> f.k_nn, L |-> f.L,
      top_k_scores |-> [i \in 1 .. f.k_nn |-> t[i][1]],
      top_k |-> [i \in 1 .. f.k_nn |-> t[i][2]],
      visited |-> f.visited] :
       t \in get_top_k_with_scores_from_heap(f.result, f.k_nn)}

\* query(): greedy_search has left its loop; query() returns its result.
QueryReturn ==
    /\ pc = "query_search"
    /\ gs.q1 = EmptyBag
    /\ last_query' \in GreedyResult(gs)
    /\ gs' = NoFrame
    /\ pc' = "trained"
    /\ UNCHANGED <<indexVars, trainVars, ivfVars, storeVars, prune_call>>

Next ==
    \/ TrainBegin
    \/ GreedyStep
    \/ TrainPrune
    \/ TrainBackEdge
    \/ TrainNext
    \/ Query
    \/ QueryReturn

Spec == Init /\ [][Next]_vars

(***************************************************************************)
(* vamana_index::write_index and the loading constructor.                  *)
(***************************************************************************)
\* The index object as a record of its members.
ThisIndex ==
    [exists |-> TRUE,
     dimension_ |-> dimension_, num_vectors_ |-> num_vectors_,
     L_build_ |-> L_build_, R_max_degree_ |-> R_max_degree_,
     B_backtrack_ |-> B_backtrack_, alpha_min_ |-> alpha_min_,
     alpha_max_ |-> alpha_max_, medioid_ |-> medioid_,
     feature_vectors_ |-> feature_vectors_, graph_ |-> graph_]

\* The metadata table: name -> member.
metadata(x) ==
    [dimension |-> x.dimension_, ntotal |-> x.num_vectors_, L |-> x.L_build_,
     R |-> x.R_max_degree_, B |-> x.B_backtrack_, alpha_min |-> x.alpha_min_,
     alpha_max |-> x.alpha_max_, medioid |-> x.medioid_]

\* adj_scores / adj_ids: the adjacency lists of nodes i .. n-1, contiguously.
RECURSIVE AdjEdges(_, _, _)
AdjEdges(g, i, n) == IF i >= n THEN <<>> ELSE g[i] \o AdjEdges(g, i + 1, n)

\* adj_index[i]: the edge offset of node i; adj_index.back() the edge count.
RECURSIVE EdgeOffset(_, _)
EdgeOffset(g, i) == IF i = 0 THEN 0 ELSE EdgeOffset(g, i - 1) + Len(g[i - 1])

\* Faulty variant: adj_index.back() is never set and stays 0.
WrittenGroup_NoBack(x) ==
    LET edges == AdjEdges(x.graph_, 0, x.num_vectors_)
    IN  [exists |-> TRUE,
         metadata |-> metadata(x),
         feature_vectors |-> x.feature_vectors_,
         adj_scores |-> [e \in 1 .. Len(edges) |-> edges[e][1]],
         adj_ids |-> [e \in 1 .. Len(edges) |-> edges[e][2]],
         adj_index |-> [i \in 1 .. (x.num_vectors_ + 1) |->
                          IF i = x.num_vectors_ + 1 THEN 0
                          ELSE EdgeOffset(x.graph_, i - 1)]]

\* What write_index puts in the group.
WrittenGroup(x) ==
    LET edges == AdjEdges(x.graph_, 0, x.num_vectors_)
    IN  [exists |-> TRUE,
         metadata |-> metadata(x),
         feature_vectors |-> x.feature_vectors_,
         adj_scores |-> [e \in 1 .. Len(edges) |-> edges[e][1]],
         adj_ids |-> [e \in 1 .. Len(edges) |-> edges[e][2]],
         adj_index |-> [i \in 1 .. (x.num_vectors_ + 1) |->
                          EdgeOffset(x.graph_, i - 1)]]

\* The loading loops: add_edge(i, adj_ids[j], adj_scores[j]) for j in
\* [adj_index[i], adj_index[i + 1]).
RECURSIVE LoadEdges(_, _, _, _)
LoadEdges(g, grp, i, j) ==
    IF i >= grp.metadata.ntotal THEN g
    ELSE IF j >= grp.adj_index[i + 2] THEN
           IF i + 1 >= grp.metadata.ntotal THEN g
           ELSE LoadEdges(g, grp, i + 1, grp.adj_index[i + 2])
    ELSE LoadEdges(add_edge(g, i, grp.adj_ids[j + 1], grp.adj_scores[j + 1]),
                   grp, i, j + 1)

\* vamana_index(ctx, group_uri).
LoadedIndex(grp) ==
    [exists |-> TRUE,
     dimension_ |-> grp.metadata.dimension,
     num_vectors_ |-> grp.metadata.ntotal,
     L_build_ |-> grp.metadata.L, R_max_degree_ |-> grp.metadata.R,
     B_backtrack_ |-> grp.metadata.B, alpha_min_ |-> grp.metadata.alpha_min,
     alpha_max_ |-> grp.metadata.alpha_max, medioid_ |-> grp.metadata.medioid,
     feature_vectors_ |-> grp.feature_vectors,
     graph_ |-> LoadEdges([n \in 0 .. (grp.metadata.ntotal - 1) |-> <<>>],
                          grp, 0, grp.adj_index[1])]

\* An index trained earlier on NumNodes equal vectors with L = R = 1, and
\* the group its write_index left at group_uri.
EarlierIndex ==
    [exists |-> TRUE,
     dimension_ |-> 1, num_vectors_ |-> NumNodes, L_build_ |-> 1,
     R_max_degree_ |-> 1, B_backtrack_ |-> 1, alpha_min_ |-> alpha_min_,
     alpha_max_ |-> alpha_max_, medioid_ |-> 0,
     feature_vectors_ |-> [n \in Nodes |-> 0],
     graph_ |-> [n \in Nodes |-> IF NumNodes = 1 THEN <<>>
                                 ELSE IF n = 0 THEN <<<<0, 1>>>>
                                 ELSE <<<<0, 0>>>>]]

InitPersist ==
    /\ IvfUnused
    /\ \E L \in 1 .. MaxL, R \in 0 .. MaxR : Constructed(L, R)
    /\ training_set \in [Nodes -> Coords]
    /\ pc = "constructed"
    /\ group \in {NoGroup, WrittenGroup(EarlierIndex)}

\* write_index(group_uri, overwrite): false, and nothing written, when the
\* group exists and overwrite is false.
WriteIndex ==
    /\ pc = "trained"
    /\ \E overwrite \in BOOLEAN :
         IF group.exists /\ ~overwrite
         THEN /\ write_result' = "false"
              /\ UNCHANGED group
         ELSE /\ write_result' = "true"
              /\ group' = WrittenGroup(ThisIndex)
    /\ loaded' = NoIndex
    /\ UNCHANGED <<indexVars, trainVars, ivfVars, pc, gs, last_query, prune_call>>

\* vamana_index(ctx, group_uri): opening a missing group throws.
LoadIndex ==
    /\ group.exists
    /\ loaded = NoIndex
    /\ loaded' = LoadedIndex(group)
    /\ UNCHANGED <<indexVars, trainVars, ivfVars, pc, gs, last_query, group,
                   write_result, prune_call>>

NextPersist ==
    \/ TrainBegin
    \/ GreedyStep
    \/ TrainPrune
    \/ TrainBackEdge
    \/ TrainNext
    \/ WriteIndex
    \/ LoadIndex

SpecPersist == InitPersist /\ [][NextPersist]_vars

(***************************************************************************)
(* greedy_search and robust_prune called on a graph built by add_edge.     *)
(***************************************************************************)
num_edges(g) == Len(AdjEdges(g, 0, NumNodes))

InitGraph ==
    /\ IvfUnused
    /\ Constructed(1, 0)
    /\ training_set = [n \in Nodes |-> 0]
    /\ pc = "graph"
    /\ group = NoGroup

\* The database of the graph: any feature vectors.
LoadVectors ==
    /\ pc = "graph"
    /\ dimension_ = 0
    /\ feature_vectors_' \in [Nodes -> Coords]
    /\ dimension_' = 1
    /\ UNCHANGED <<num_vectors_, L_build_, R_max_degree_, B_backtrack_, graph_,
                   medioid_, trainVars, ivfVars, pc, gs, last_query, storeVars,
                   prune_call>>

\* graph.add_edge(src, dst, distance(db[dst], db[src])), src # dst.
AddEdge ==
    /\ pc = "graph"
    /\ dimension_ = 1
    /\ num_edges(graph_) < MaxEdges
    /\ \E src \in Nodes, dst \in Nodes :
         /\ src # dst
         /\ graph_' = add_edge(graph_, src, dst,
                               sum_of_squares(feature_vectors_[dst],
                                              feature_vectors_[src]))
    /\ UNCHANGED <<feature_vectors_, configVars, medioid_, trainVars, ivfVars, pc, gs,
                   last_query, storeVars, prune_call>>

\* greedy_search(graph, db, source, db[source], k_nn, L), L >= k_nn >= 1.
SearchSelf ==
    /\ pc = "graph"
    /\ dimension_ = 1
    /\ \E source \in Nodes, k_nn \in 1 .. MaxL :
         \E L \in k_nn .. MaxL :
           gs' = GreedyInit(feature_vectors_, source,
                            feature_vectors_[source], k_nn, L)
    /\ pc' = "search"
    /\ UNCHANGED <<indexVars, trainVars, ivfVars, last_query, storeVars, prune_call>>

\* greedy_search has left its loop and returns.
SearchReturn ==
    /\ pc = "search"
    /\ gs.q1 = EmptyBag
    /\ last_query' \in GreedyResult(gs)
    /\ gs' = NoFrame
    /\ pc' = "returned"
    /\ UNCHANGED <<indexVars, trainVars, ivfVars, storeVars, prune_call>>

\* robust_prune(graph, db, p, V_in, alpha, R).
PruneCall ==
    /\ pc = "graph"
    /\ dimension_ = 1
    /\ \E pnode \in Nodes, V_in \in SUBSET Nodes, R \in 0 .. MaxR,
          alpha \in {alpha_min_, alpha_max_} :
         /\ graph_' \in robust_prune(graph_, feature_vectors_, pnode, V_in,
                                     alpha, R)
         /\ prune_call' = [p |-> pnode, V_in |-> V_in, alpha |-> alpha,
                           R |-> R,
                           cands |-> V_map(graph_, feature_vectors_, pnode, V_in),
                           first |-> graph_'[pnode]]
    /\ pc' = "pruned"
    /\ UNCHANGED <<feature_vectors_, configVars, medioid_, trainVars, ivfVars, gs,
                   last_query, storeVars>>

\* robust_prune again, with the arguments of the first call.
PruneAgain ==
    /\ pc = "pruned"
    /\ graph_' \in robust_prune(graph_, feature_vectors_, prune_call.p,
                                prune_call.V_in, prune_call.alpha,
                                prune_call.R)
    /\ pc' = "pruned_twice"
    /\ UNCHANGED <<feature_vectors_, configVars, medioid_, trainVars, ivfVars, gs,
                   last_query, storeVars, prune_call>>

NextGraph ==
    \/ LoadVectors
    \/ AddEdge
    \/ SearchSelf
    \/ GreedyStep
    \/ SearchReturn
    \/ PruneCall
    \/ PruneAgain

SpecGraph == InitGraph /\ [][NextGraph]_vars

(***************************************************************************)
(* IVF-Flat build: qv_partition and kmeans_index::add.                     *)
(* Vectors and matrices are functions on 0 .. n-1, as in the code.         *)
(***************************************************************************)
ZeroBased(n, T) == [0 .. (n - 1) -> T]
Size(v) == Cardinality(DOMAIN v)

\* Faulty variant: the comparison is flipped (score > min_score), so idx
\* stays 0.
qv_partition_AlwaysFirst(cdb, q) == [j \in DOMAIN q |-> 0]

\* qv_partition(db, q): for each column j of q the first column of db of
\* minimal L2 score (idx = 0, replaced only when score < min_score).
qv_partition(cdb, q) ==
    [j \in DOMAIN q |->
       IF Size(cdb) = 0 THEN 0
       ELSE CHOOSE idx \in DOMAIN cdb :
              /\ \A i \in DOMAIN cdb :
                   sum_of_squares(q[j], cdb[idx]) <= sum_of_squares(q[j], cdb[i])
              /\ \A i \in DOMAIN cdb :
                   i < idx => sum_of_squares(q[j], cdb[i])
                                > sum_of_squares(q[j], cdb[idx])]

\* degrees[j]: the number of i with parts[i] = j.
Degrees(parts, K) ==
    [j \in 0 .. (K - 1) |-> Cardinality({i \in DOMAIN parts : parts[i] = j})]

\* indices[0] = 0; inclusive_scan(degrees) into indices[1 ..].
RECURSIVE PrefixSum(_, _)
PrefixSum(degrees, j) ==
    IF j = 0 THEN 0 ELSE PrefixSum(degrees, j - 1) + degrees[j - 1]

InclusiveScan(degrees) ==
    [j \in 0 .. Size(degrees) |-> PrefixSum(degrees, j)]

\* sizes_to_indices: the prefix sum of per-partition sizes.
sizes_to_indices(sizes) == InclusiveScan(sizes)

\* Faulty variant: indices[0] = 0 is missing after the shift.
ShiftRight_KeepFirst(v) == [j \in DOMAIN v |-> IF j = 0 THEN v[0] ELSE v[j - 1]]

\* std::shift_right(indices, 1); indices[0] = 0.
ShiftRight(v) == [j \in DOMAIN v |-> IF j = 0 THEN 0 ELSE v[j - 1]]

\* A column of shuffled_db that add() has not written yet.
Unwritten == -1

InitIvf ==
    /\ Constructed(1, 0)
    /\ training_set = [n \in Nodes |-> 0]
    /\ group = NoGroup
    /\ pc = "ivf_trained"
    /\ \E K \in 1 .. MaxParts : centroids_ \in ZeroBased(K, Coords)
    /\ \E N \in 0 .. NumNodes : ivf_db \in ZeroBased(N, Coords)
    /\ IvfNotBuilt

vamanaVars == <<indexVars, trainVars, gs, last_query, storeVars, prune_call>>

\* add(): the partition of db, the degrees, the prefix sum, the iota.
AddBegin ==
    /\ pc = "ivf_trained"
    /\ LET parts == qv_partition(centroids_, ivf_db)
       IN  add_frame' =
             [parts |-> parts,
              indices |-> InclusiveScan(Degrees(parts, Size(centroids_))),
              shuffled_ids |-> [i \in DOMAIN ivf_db |-> i],
              shuffled_db |-> [i \in DOMAIN ivf_db |-> Unwritten],
              i |-> 0]
    /\ pc' = "ivf_shuffle"
    /\ UNCHANGED <<vamanaVars, flatVars, centroids_, ivf_db, indices_, shuffled_ids_,
                   shuffled_db_, indices, size_index, ivfQueryVars>>

\* Faulty variant: ++indices[bin] is missing.
ShuffleStep_NoIncrement(f, dbm) ==
    LET i == f.i
        bin == f.parts[i]
        ibin == f.indices[bin]
    IN  [f EXCEPT !.shuffled_ids[ibin] = i,
                  !.shuffled_db[ibin] = dbm[i],
                  !.i = i + 1]

\* The body of the shuffle loop for i = f.i.
ShuffleStep(f, dbm) ==
    LET i == f.i
        bin == f.parts[i]
        ibin == f.indices[bin]
    IN  [f EXCEPT !.shuffled_ids[ibin] = i,
                  !.shuffled_db[ibin] = dbm[i],
                  !.indices[bin] = @ + 1,
                  !.i = i + 1]

\* add(): one iteration of the shuffle loop.
AddShuffle ==
    /\ pc = "ivf_shuffle"
    /\ add_frame.i < Size(ivf_db)
    /\ add_frame' = ShuffleStep(add_frame, ivf_db)
    /\ UNCHANGED <<vamanaVars, flatVars, pc, centroids_, ivf_db, indices_, shuffled_ids_,
                   shuffled_db_, indices, size_index, ivfQueryVars>>

\* add(): shift_right, indices[0] = 0, and the moves into the members.
AddFinish ==
    /\ pc = "ivf_shuffle"
    /\ add_frame.i >= Size(ivf_db)
    /\ indices_' = ShiftRight(add_frame.indices)
    /\ shuffled_ids_' = add_frame.shuffled_ids
    /\ shuffled_db_' = add_frame.shuffled_db
    /\ add_frame' = [add_frame EXCEPT !.indices = <<>>, !.shuffled_ids = <<>>,
                                      !.shuffled_db = <<>>]
    /\ pc' = "ivf_built"
    /\ UNCHANGED <<vamanaVars, flatVars, centroids_, ivf_db, indices, size_index,
                   ivfQueryVars>>

\* The per-partition sizes stored next to the index vector.
Sizes(ix) == [j \in 0 .. (Size(ix) - 2) |-> ix[j + 1] - ix[j]]

\* The query driver reads the index vector, or the sizes and prefix-sums
\* them.
ReadIndices ==
    /\ pc = "ivf_built"
    /\ size_index' \in BOOLEAN
    /\ indices' = IF size_index'
                  THEN sizes_to_indices(Sizes(indices_))
                  ELSE indices_
    /\ pc' = "ivf_loaded"
    /\ UNCHANGED <<vamanaVars, flatVars, centroids_, ivf_db, add_frame, indices_,
                   shuffled_ids_, shuffled_db_, ivfQueryVars>>

NextIvfBuild ==
    \/ AddBegin
    \/ AddShuffle
    \/ AddFinish
    \/ ReadIndices

SpecIvfBuild == InitIvf /\ [][NextIvfBuild]_vars

(***************************************************************************)
(* IVF-Flat query: infinite-RAM and finite-RAM.                            *)
(***************************************************************************)
RECURSIVE SortedSeq(_)
SortedSeq(S) == IF S = {} THEN <<>> ELSE <<Min(S)>> \o SortedSeq(S \ {Min(S)})

\* One function for every way of picking f[j] in outs[j].
Choices(outs) ==
    {f \in [DOMAIN outs -> UNION {outs[j] : j \in DOMAIN outs}] :
       \A j \in DOMAIN outs : f[j] \in outs[j]}

\* The top-nprobe centroids of a query vector; nprobe > K is clamped to K.
TopCentroids(qv, nprobe) ==
    LET K == Size(centroids_)
        n == IF nprobe > K THEN K ELSE nprobe
    IN  {S \in SUBSET (DOMAIN centroids_) :
           /\ Cardinality(S) = n
           /\ \A a \in S, b \in (DOMAIN centroids_) \ S :
                sum_of_squares(qv, centroids_[a])
                  <= sum_of_squares(qv, centroids_[b])}

\* The column range of partition c.
PartitionSlots(c) == indices[c] .. (indices[c + 1] - 1)

\* The heaps that inserting the entries in order can give.
RECURSIVE InsertAll(_, _, _)
InsertAll(h, cap, es) ==
    IF es = <<>> THEN {h}
    ELSE UNION {InsertAll(o.heap, cap, Tail(es)) :
                  o \in k_min_heap_insert(h, cap, Head(es)[1], Head(es)[2], FALSE)}

\* The query driver has its queries, nprobe and k_nn; the top-nprobe
\* centroids of each query.
IvfQueryArgs ==
    /\ pc = "ivf_loaded"
    /\ \E q \in ZeroBased(NumQueries, Coords), nprobe \in 1 .. (MaxParts + 1),
          k_nn \in 1 .. MaxTopK :
         \E tc \in Choices([j \in DOMAIN q |-> TopCentroids(q[j], nprobe)]) :
           ivf_query' = [q |-> q, nprobe |-> nprobe, k_nn |-> k_nn,
                         top_centroids |-> tc]
    /\ pc' = "ivf_query"
    /\ UNCHANGED <<vamanaVars, flatVars, buildVars, inf_top_k, fin_frame, fin_top_k>>

\* all_ids of a query: the slots of its probed partitions, contiguously.
AllSlots(j) ==
    SortedSeq(UNION {PartitionSlots(c) : c \in ivf_query.top_centroids[j]})

\* qv_query_heap_infinite_ram: brute force over all_results, the indices
\* translated back through all_ids.
InfiniteTopK(j) ==
    LET slots == AllSlots(j)
        all_ids == [x \in 1 .. Len(slots) |-> shuffled_ids_[slots[x]]]
        es == [x \in 1 .. Len(slots) |->
                 <<sum_of_squares(ivf_query.q[j], shuffled_db_[slots[x]]), x>>]
    IN  {{all_ids[x] : x \in HeapIds(h)} :
           h \in InsertAll(EmptyBag, ivf_query.k_nn, es)}

QueryInfinite ==
    /\ pc = "ivf_query"
    /\ inf_top_k' \in Choices([j \in DOMAIN ivf_query.q |-> InfiniteTopK(j)])
    /\ pc' = "ivf_infinite_done"
    /\ UNCHANGED <<vamanaVars, flatVars, buildVars, ivf_query, fin_frame, fin_top_k>>

\* qv_query_heap_finite_ram: one empty heap per query; blocksize 0 stands
\* for the whole matrix.
QueryFiniteBegin ==
    /\ pc = "ivf_infinite_done"
    /\ \E blocksize \in 0 .. Size(shuffled_db_) :
         fin_frame' = [blocksize |-> IF blocksize = 0 THEN Size(shuffled_db_)
                                     ELSE blocksize,
                       start |-> 0,
                       heaps |-> [j \in DOMAIN ivf_query.q |-> EmptyBag]]
    /\ pc' = "ivf_finite_blocks"
    /\ UNCHANGED <<vamanaVars, flatVars, buildVars, ivf_query, inf_top_k, fin_top_k>>

\* Faulty variant: the first column of every block is skipped.
BlockSlice_SkipsFirst(c, start, stop) ==
    {x \in PartitionSlots(c) : start < x /\ x < stop}

\* The slice of partition c inside the block [start, stop).
BlockSlice(c, start, stop) ==
    {x \in PartitionSlots(c) : start <= x /\ x < stop}

\* The entries of one block for query j: the slices of its probed partitions.
BlockEntries(j, start, stop) ==
    LET slots == SortedSeq(UNION {BlockSlice(c, start, stop) :
                                    c \in ivf_query.top_centroids[j]})
    IN  [x \in 1 .. Len(slots) |->
           <<sum_of_squares(ivf_query.q[j], shuffled_db_[slots[x]]),
             shuffled_ids_[slots[x]]>>]

\* One block of the stream: the per-query heaps updated in place.
QueryFiniteBlock ==
    /\ pc = "ivf_finite_blocks"
    /\ fin_frame.start < Size(shuffled_db_)
    /\ LET start == fin_frame.start
           stop == IF start + fin_frame.blocksize > Size(shuffled_db_)
                   THEN Size(shuffled_db_)
                   ELSE start + fin_frame.blocksize
       IN  \E hs \in Choices([j \in DOMAIN ivf_query.q |->
                                InsertAll(fin_frame.heaps[j], ivf_query.k_nn,
                                          BlockEntries(j, start, stop))]) :
             fin_frame' = [fin_frame EXCEPT !.start = stop, !.heaps = hs]
    /\ UNCHANGED <<vamanaVars, flatVars, buildVars, pc, ivf_query, inf_top_k, fin_top_k>>

\* All blocks consumed: the k_nn of each heap.
QueryFiniteEnd ==
    /\ pc = "ivf_finite_blocks"
    /\ fin_frame.start >= Size(shuffled_db_)
    /\ fin_top_k' = [j \in DOMAIN ivf_query.q |-> HeapIds(fin_frame.heaps[j])]
    /\ pc' = "ivf_finite_done"
    /\ UNCHANGED <<vamanaVars, flatVars, buildVars, ivf_query, inf_top_k, fin_frame>>

NextIvfQuery ==
    \/ AddBegin
    \/ AddShuffle
    \/ AddFinish
    \/ ReadIndices
    \/ IvfQueryArgs
    \/ QueryInfinite
    \/ QueryFiniteBegin
    \/ QueryFiniteBlock
    \/ QueryFiniteEnd

SpecIvfQuery == InitIvf /\ [][NextIvfQuery]_vars

(***************************************************************************)
(* The k-means trainer: kmeans_pp, kmeans_random_init, train_no_init.      *)
(* Centroids are means of training vectors; they are kept in units of      *)
(* 1/Scale, where every cluster size divides Scale, so that the division   *)
(* by the degree is exact.                                                 *)
(***************************************************************************)
RECURSIVE Gcd(_, _)
Gcd(a, b) == IF b = 0 THEN a ELSE Gcd(b, a % b)

RECURSIVE LcmUpTo(_)
LcmUpTo(n) == IF n <= 1 THEN 1 ELSE (LcmUpTo(n - 1) * n) \div Gcd(LcmUpTo(n - 1), n)

Scale == LcmUpTo(NumNodes)

\* Column n of the training set, in units of 1/Scale.
Column(ts, n) == ts[n] * Scale

\* std::numeric_limits<double>::max() / 8: above every distance.
distance_max == (MaxCoord * Scale) * (MaxCoord * Scale) + 1

\* kmeans_index(dimension, nlist, max_iter, tol, nthreads): nlist zero
\* centroids.
InitKmeans ==
    /\ Constructed(1, 0)
    /\ training_set \in [Nodes -> Coords]
    /\ group = NoGroup
    /\ pc = "kmeans_constructed"
    /\ \E K \in 1 .. MaxParts : centroids_ = [j \in 0 .. (K - 1) |-> 0]
    /\ ivf_db = <<>>
    /\ IvfNotBuilt

nlist_ == Size(centroids_)

\* kmeans_pp: centroid 0 is a uniformly chosen column; distances start at
\* distance_max.
KmeansPpBegin ==
    /\ pc = "kmeans_constructed"
    /\ \E choice \in Nodes :
         centroids_' = [centroids_ EXCEPT ![0] = Column(training_set, choice)]
    /\ kmeans_frame' = [NoKmeans EXCEPT
                          !.i = 1,
                          !.distances = [n \in Nodes |-> distance_max]]
    /\ pc' = IF 1 < nlist_ THEN "kmeans_pp" ELSE "kmeans_pp_done"
    /\ UNCHANGED <<vamanaVars, ivf_db, add_frame, indices_, shuffled_ids_,
                   shuffled_db_, indices, size_index, ivfQueryVars, kmeans_q,
                   heap, heap_log, vq_call>>

\* Faulty variant: the next index is drawn uniformly, whatever the weights.
NextIndexChoices_Uniform(distances) == DOMAIN distances

\* std::discrete_distribution over the weights `distances`: an index of
\* positive weight.  With all weights zero the distribution is outside its
\* precondition and any index can come out.
NextIndexChoices(distances) ==
    IF \E n \in DOMAIN distances : distances[n] > 0
    THEN {n \in DOMAIN distances : distances[n] > 0}
    ELSE DOMAIN distances

\* kmeans_pp: iteration i of the loop over the remaining centroids.
KmeansPpStep ==
    /\ pc = "kmeans_pp"
    /\ LET i == kmeans_frame.i
           d == [n \in Nodes |->
                   Min({kmeans_frame.distances[n],
                        sum_of_squares(Column(training_set, n),
                                       centroids_[i - 1])})]
       IN  \E nextIndex \in NextIndexChoices(d) :
             /\ centroids_' = [centroids_ EXCEPT
                                 ![i] = Column(training_set, nextIndex)]
             /\ kmeans_frame' = [kmeans_frame EXCEPT
                                   !.i = i + 1,
                                   !.distances = [d EXCEPT ![nextIndex] = 0]]
             /\ pc' = IF i + 1 < nlist_ THEN "kmeans_pp" ELSE "kmeans_pp_done"
    /\ UNCHANGED <<vamanaVars, ivf_db, add_frame, indices_, shuffled_ids_,
                   shuffled_db_, indices, size_index, ivfQueryVars, kmeans_q,
                   heap, heap_log, vq_call>>

\* kmeans_random_init: nlist_ independent uniform draws of a column index.
KmeansRandomInit ==
    /\ pc = "kmeans_constructed"
    /\ \E ix \in [0 .. (nlist_ - 1) -> Nodes] :
         centroids_' = [i \in 0 .. (nlist_ - 1) |-> Column(training_set, ix[i])]
    /\ pc' = "kmeans_random_done"
    /\ UNCHANGED <<vamanaVars, ivf_db, add_frame, indices_, shuffled_ids_,
                   shuffled_db_, indices, size_index, ivfQueryVars, flatVars>>

\* The sum of the columns i of ts with parts[i] = j, in units of 1/Scale.
RECURSIVE ColumnSum(_, _, _, _)
ColumnSum(ts, parts, j, n) ==
    IF n = 0 THEN 0
    ELSE ColumnSum(ts, parts, j, n - 1)
           + (IF parts[n - 1] = j THEN Column(ts, n - 1) ELSE 0)

\* centroid[k] /= degrees[j], skipped when degrees[j] is 0: the centroid was
\* filled with 0.0 before the sums, so a centroid of degree 0 stays 0.
LloydCentroid(sum, degree) == IF degree # 0 THEN sum \div degree ELSE sum

\* train_no_init: one iteration of the loop over iter (max_iter_ up to
\* MaxIter): partition, zero the centroids, sum, divide.
TrainNoInitIter ==
    /\ pc \in {"kmeans_pp_done", "kmeans_random_done", "kmeans_lloyd"}
    /\ kmeans_frame.iter < MaxIter
    /\ LET parts == qv_partition(centroids_,
                                 [n \in Nodes |-> Column(training_set, n)])
           degrees == Degrees(parts, nlist_)
       IN  /\ centroids_' =
                [j \in 0 .. (nlist_ - 1) |->
                   LloydCentroid(ColumnSum(training_set, parts, j, NumNodes),
                                 degrees[j])]
           /\ kmeans_frame' = [kmeans_frame EXCEPT
                                 !.iter = @ + 1,
                                 !.before = centroids_,
                                 !.degrees = degrees]
    /\ pc' = "kmeans_lloyd"
    /\ UNCHANGED <<vamanaVars, ivf_db, add_frame, indices_, shuffled_ids_,
                   shuffled_db_, indices, size_index, ivfQueryVars, kmeans_q,
                   heap, heap_log, vq_call>>

NextKmeans ==
    \/ KmeansPpBegin
    \/ KmeansPpStep
    \/ KmeansRandomInit
    \/ TrainNoInitIter

SpecKmeans == InitKmeans /\ [][NextKmeans]_vars

(***************************************************************************)
(* A fixed_min_heap on its own: fixed_min_heap<element>(k), then inserts.  *)
(***************************************************************************)
InitHeap ==
    /\ Constructed(1, 0)
    /\ training_set = [n \in Nodes |-> 0]
    /\ group = NoGroup
    /\ pc = "no_heap"
    /\ IvfUnused

\* fixed_min_heap<element>(k), k >= 1.
HeapCreate ==
    /\ pc = "no_heap"
    /\ \E k \in 1 .. MaxTopK : heap_log' = [NoHeapLog EXCEPT !.k = k]
    /\ heap' = EmptyBag
    /\ pc' = "heap"
    /\ UNCHANGED <<vamanaVars, buildVars, ivfQueryVars, kmeans_frame, kmeans_q,
                   vq_call>>

\* insert(score, id); heap_log keeps every pair inserted and the heap before
\* the last insert.
HeapInsert ==
    /\ pc = "heap"
    /\ BagCardinality(heap_log.scores) < MaxInserts
    /\ \E score \in Coords, id \in Nodes :
         \E r \in k_min_heap_insert(heap, heap_log.k, score, id, FALSE) :
           /\ heap' = r.heap
           /\ heap_log' = [heap_log EXCEPT
                             !.scores = @ (+) SetToBag({<<score, id>>}),
                             !.last = <<score, id, heap>>]
    /\ UNCHANGED <<vamanaVars, buildVars, ivfQueryVars, pc, kmeans_frame,
                   kmeans_q, vq_call>>

NextHeap ==
    \/ HeapCreate
    \/ HeapInsert

SpecHeap == InitHeap /\ [][NextHeap]_vars

(***************************************************************************)
(* greedy_search called with any query and any k_nn and L on a graph built *)
(* by add_edge.  assert(L >= k_nn) aborts the call in a build with         *)
(* assertions; with NDEBUG the assertion is compiled out and the search    *)
(* runs.                                                                   *)
(***************************************************************************)
SearchAny ==
    /\ pc = "graph"
    /\ dimension_ = 1
    /\ \E source \in Nodes, query \in Coords, k_nn \in 1 .. MaxL, L \in 1 .. MaxL :
         \/ /\ L < k_nn
            /\ pc' = "aborted"
            /\ gs' = gs
         \/ /\ gs' = GreedyInit(feature_vectors_, source, query, k_nn, L)
            /\ pc' = "search"
    /\ UNCHANGED <<indexVars, trainVars, ivfVars, last_query, storeVars, prune_call>>

NextSearch ==
    \/ LoadVectors
    \/ AddEdge
    \/ SearchAny
    \/ GreedyStep
    \/ SearchReturn

SpecSearch == InitGraph /\ [][NextSearch]_vars

\* greedy_search is sequential code: a loop iteration that can run, runs, and
\* so does the return once the loop is over.
SpecSearchLive ==
    /\ InitGraph
    /\ [][NextSearch]_vars
    /\ WF_vars(GreedyStep)
    /\ WF_vars(SearchReturn)

(***************************************************************************)
(* kmeans_query and qv_query (flat_query.h) on a built index.              *)
(***************************************************************************)
\* One column of qv_query's top_k for the query vector qv: the ids of a
\* fixed_min_set of capacity k after inserting every column of dbm, in
\* ascending order.  With fewer than k columns the set holds fewer than k
\* entries and the remaining cells of the column are never written.
QvColumn(dbm, qv, k) ==
    LET es == [x \in 1 .. Size(dbm) |->
                 <<sum_of_squares(qv, dbm[x - 1]), x - 1>>]
    IN  {[i \in 0 .. (k - 1) |-> IF i < Len(d) THEN d[i + 1][2] ELSE Unwritten] :
           d \in UNION {DrainSorted(h) : h \in InsertAll(EmptyBag, k, es)}}

\* qv_query(db, q, k): a k x num_cols(q) matrix, one column per query.
qv_query(dbm, q, k) == Choices([j \in DOMAIN q |-> QvColumn(dbm, q[j], k)])

\* The values top_top_k can take: top_k(i, 0) for each i < nprobe, taken from
\* column 0 of top_k.  A cell that qv_query did not write holds whatever the
\* matrix was created with; the values that index a partition are modelled.
TopTopK(top_k, nprobe) ==
    {t \in [0 .. (nprobe - 1) -> DOMAIN centroids_] :
       \A i \in 0 .. (nprobe - 1) :
         top_k[0][i] # Unwritten => t[i] = top_k[0][i]}

RangeSeq(start, end) == [x \in 1 .. (end - start) |-> start + x - 1]

\* The columns copied into all_results, in order: for j < n the columns
\* indices[top_top_k[j]] .. indices[top_top_k[j] + 1] - 1.
RECURSIVE Gather(_, _)
Gather(top_top_k, n) ==
    IF n = 0 THEN <<>>
    ELSE Gather(top_top_k, n - 1)
           \o RangeSeq(indices_[top_top_k[n - 1]], indices_[top_top_k[n - 1] + 1])

\* kmeans_query(db, shuffled_db, centroids, q, indices, shuffled_ids, nprobe,
\* k_nn, nthreads): returns (kmeans_ids, all_ids).
KmeansQuery ==
    /\ pc = "ivf_built"
    /\ \E nq \in 1 .. NumQueries, nprobe \in 1 .. (MaxParts + 1),
          k_nn \in 1 .. MaxTopK :
         \E q \in ZeroBased(nq, Coords) :
           \E top_k \in qv_query(centroids_, q, nprobe) :
             \E top_top_k \in TopTopK(top_k, nprobe) :
               LET slots == Gather(top_top_k, nprobe)
                   all_results == [x \in 0 .. (Len(slots) - 1) |->
                                     shuffled_db_[slots[x + 1]]]
                   all_ids == [x \in 0 .. (Len(slots) - 1) |->
                                 shuffled_ids_[slots[x + 1]]]
               IN  \E kmeans_ids \in qv_query(all_results, q, k_nn) :
                     kmeans_q' = [called |-> TRUE, q |-> q, nprobe |-> nprobe,
                                  k_nn |-> k_nn, top_top_k |-> top_top_k,
                                  slots |-> slots, all_ids |-> all_ids,
                                  kmeans_ids |-> kmeans_ids]
    /\ pc' = "kmeans_query_done"
    /\ UNCHANGED <<vamanaVars, buildVars, ivfQueryVars, kmeans_frame, heap,
                   heap_log, vq_call>>

NextKmeansQuery ==
    \/ AddBegin
    \/ AddShuffle
    \/ AddFinish
    \/ KmeansQuery

SpecKmeansQuery == InitIvf /\ [][NextKmeansQuery]_vars

(***************************************************************************)
(* vq_query_heap (flat_query.h), one thread.  A blocked matrix shows a     *)
(* window of `blocksize` columns starting at offset(); advance() moves the *)
(* window and returns false past the end.                                  *)
(***************************************************************************)
InitVq ==
    /\ Constructed(1, 0)
    /\ training_set = [n \in Nodes |-> 0]
    /\ group = NoGroup
    /\ pc = "no_vq"
    /\ IvfUnused

\* Faulty variant: the test of the two flags is missing.
VqRejects_Never(block_db, block_q) == FALSE

\* if (block_db && block_q) throw std::runtime_error(...).
VqRejects(block_db, block_q) == block_db /\ block_q

\* The columns of a matrix of n columns that its window shows.
Window(n, offset, blocksize) ==
    {c \in 0 .. (n - 1) : offset <= c /\ c < offset + blocksize}

\* vq_query_heap(db, q, k, nthreads): the test of the flags, then one vector
\* of size(q) heaps of capacity k.
VqCall ==
    /\ pc = "no_vq"
    /\ \E n \in 1 .. NumNodes, nq \in 1 .. NumQueries, k \in 1 .. MaxTopK,
          block_db \in BOOLEAN, block_q \in BOOLEAN :
         \E dbm \in ZeroBased(n, Coords), q \in ZeroBased(nq, Coords),
            db_block \in 1 .. n, q_block \in 1 .. nq :
           LET call == [called |-> TRUE, db |-> dbm, q |-> q, k |-> k,
                        block_db |-> block_db, block_q |-> block_q,
                        db_block |-> IF block_db THEN db_block ELSE n,
                        q_block |-> IF block_q THEN q_block ELSE nq,
                        db_offset |-> 0, q_offset |-> 0,
                        threw |-> FALSE, n_dist |-> 0, passes |-> 0,
                        offered |-> <<>>,
                        scores |-> <<>>, top_k |-> <<>>]
           IN  IF VqRejects(block_db, block_q)
               THEN /\ vq_call' = [call EXCEPT !.threw = TRUE]
                    /\ pc' = "vq_threw"
               ELSE /\ vq_call' =
                         [call EXCEPT
                            !.scores = [j \in Window(nq, 0, call.q_block) |->
                                          EmptyBag],
                            !.offered = [j \in Window(nq, 0, call.q_block) |->
                                           <<>>]]
                    /\ pc' = "vq_scan"
    /\ UNCHANGED <<vamanaVars, buildVars, ivfQueryVars, kmeans_frame, kmeans_q,
                   heap, heap_log>>

\* Faulty variant: the id is the position in the window, without db.offset().
VqEntries_LocalId(c, qc) ==
    LET cols == SortedSeq(Window(Size(c.db), c.db_offset, c.db_block))
    IN  [x \in 1 .. Len(cols) |->
           <<sum_of_squares(c.q[qc], c.db[cols[x]]), x - 1>>]

\* The (score, id) pairs one pass inserts into the heap of query column qc:
\* one per column of the db window, in column order; the id is the column's
\* position in the window plus db.offset().
VqEntries(c, qc) ==
    LET cols == SortedSeq(Window(Size(c.db), c.db_offset, c.db_block))
    IN  [x \in 1 .. Len(cols) |->
           <<sum_of_squares(c.q[qc], c.db[cols[x]]), cols[x]>>]

\* The ids inserted into each heap so far, in order, after one more pass.
VqOffered(c) ==
    [j \in DOMAIN c.scores |->
       LET es == VqEntries(c, j)
       IN  c.offered[j] \o [x \in 1 .. Len(es) |-> es[x][2]]]

\* One pass of the for (;;) loop: every column of the db window against
\* every query, then advance() of the blocked matrix.  In a pass after the
\* first block of a blocked q the heap index j + q.offset() is past the end
\* of scores, which was sized by the first block: the behaviour is
\* undefined.
VqBlock ==
    /\ pc = "vq_scan"
    /\ IF vq_call.block_q /\ vq_call.q_offset > 0
       THEN /\ pc' = "vq_undefined"
            /\ vq_call' = vq_call
       ELSE \E s \in Choices([j \in DOMAIN vq_call.scores |->
                                InsertAll(vq_call.scores[j], vq_call.k,
                                          VqEntries(vq_call, j))]) :
              LET more_db == vq_call.db_offset + vq_call.db_block
                               < Size(vq_call.db)
                  more_q == vq_call.q_offset + vq_call.q_block
                              < Size(vq_call.q)
                  done == IF vq_call.block_db THEN ~more_db ELSE ~more_q
              IN  /\ vq_call' =
                       [vq_call EXCEPT
                          !.scores = s,
                          !.passes = @ + 1,
                          !.offered = VqOffered(vq_call),
                          !.n_dist = @ + Cardinality(DOMAIN vq_call.scores)
                                         * Cardinality(Window(Size(vq_call.db),
                                                              vq_call.db_offset,
                                                              vq_call.db_block)),
                          !.db_offset = IF vq_call.block_db /\ more_db
                                        THEN @ + vq_call.db_block ELSE @,
                          !.q_offset = IF ~vq_call.block_db /\ more_q
                                       THEN @ + vq_call.q_block ELSE @]
                  /\ pc' = IF done THEN "vq_merge" ELSE "vq_scan"
    /\ UNCHANGED <<vamanaVars, buildVars, ivfQueryVars, kmeans_frame, kmeans_q,
                   heap, heap_log>>

\* The heaps are sorted and their ids copied into the columns of top_k; a
\* heap of fewer than k entries leaves the rest of its column unwritten.
VqReturn ==
    /\ pc = "vq_merge"
    /\ \E t \in Choices([j \in DOMAIN vq_call.scores |->
                           {[i \in 0 .. (vq_call.k - 1) |->
                               IF i < Len(d) THEN d[i + 1][2] ELSE Unwritten] :
                              d \in DrainSorted(vq_call.scores[j])}]) :
         vq_call' = [vq_call EXCEPT !.top_k = t]
    /\ pc' = "vq_returned"
    /\ UNCHANGED <<vamanaVars, buildVars, ivfQueryVars, kmeans_frame, kmeans_q,
                   heap, heap_log>>

NextVq ==
    \/ VqCall
    \/ VqBlock
    \/ VqReturn

SpecVq == InitVq /\ [][NextVq]_vars

(***************************************************************************)
(* vq_query_heap on nthreads workers, db blocked or not.  range_for_each   *)
(* gives worker n a contiguous share of the columns of the window, calls   *)
(* the lambda with (column, n, i) for each of them, and returns when every *)
(* worker is through.  An insert into a heap is not atomic: it begins and  *)
(* it ends.                                                                *)
(***************************************************************************)
\* The positions of a window of len columns that worker n of T receives.
Share(n, T, len) ==
    LET block == (len + T - 1) \div T
    IN  {i \in 0 .. (len - 1) : n * block <= i /\ i < (n + 1) * block}

\* Faulty variant: every worker inserts into the heaps of worker 0.
HeapRow_Shared(n) == 0

\* The first index of scores[n][j] in the lambda: the worker's own n.
HeapRow(n) == n

\* The inserts worker n makes in one pass, in order: for each column of its
\* share, for each j < size_q, (row, j, score, id) with id = i + db.offset().
WorkerInserts(c, n) ==
    LET len == Cardinality(Window(Size(c.db), c.db_offset, c.db_block))
        mine == SortedSeq(Share(n, c.nthreads, len))
        nq == Size(c.q)
    IN  [t \in 1 .. (Len(mine) * nq) |->
           LET i == mine[((t - 1) \div nq) + 1]
               j == (t - 1) % nq
           IN  <<HeapRow(n), j,
                 sum_of_squares(c.q[j], c.db[i + c.db_offset]),
                 i + c.db_offset>>]

StartPass(c) ==
    [c EXCEPT !.todo = [n \in 0 .. (c.nthreads - 1) |-> WorkerInserts(c, n)]]

\* vq_query_heap(db, q, k, nthreads): nthreads vectors of size(q) heaps, and
\* the first call of range_for_each.  The queries are the vectors 0, 1, ...
VqParCall ==
    /\ pc = "no_vq"
    /\ \E n \in 1 .. NumNodes, nq \in 1 .. NumQueries, k \in 1 .. MaxTopK,
          T \in 1 .. MaxThreads, block_db \in BOOLEAN :
         \E dbm \in ZeroBased(n, Coords), db_block \in 1 .. n :
           vq_call' =
             StartPass([called |-> TRUE, db |-> dbm,
                        q |-> [j \in 0 .. (nq - 1) |-> j % (MaxCoord + 1)],
                        k |-> k,
                        nthreads |-> T, block_db |-> block_db,
                        db_block |-> IF block_db THEN db_block ELSE n,
                        db_offset |-> 0,
                        scores |-> [w \in 0 .. (T - 1) |->
                                      [j \in 0 .. (nq - 1) |-> EmptyBag]],
                        todo |-> <<>>,
                        writing |-> [w \in 0 .. (T - 1) |-> FALSE]])
    /\ pc' = "vqpar_scan"
    /\ UNCHANGED <<vamanaVars, buildVars, ivfQueryVars, kmeans_frame, kmeans_q,
                   heap, heap_log>>

\* Worker n enters scores[row][j].insert(...) for its next insert.
WorkerInsertBegin ==
    /\ pc = "vqpar_scan"
    /\ \E n \in DOMAIN vq_call.todo :
         /\ vq_call.todo[n] # <<>>
         /\ ~vq_call.writing[n]
         /\ vq_call' = [vq_call EXCEPT !.writing[n] = TRUE]
    /\ UNCHANGED <<vamanaVars, buildVars, ivfQueryVars, kmeans_frame, kmeans_q,
                   heap, heap_log, pc>>

\* Worker n leaves the insert: the heap has taken the element or not.
WorkerInsertEnd ==
    /\ pc = "vqpar_scan"
    /\ \E n \in DOMAIN vq_call.todo :
         /\ vq_call.writing[n]
         /\ LET op == Head(vq_call.todo[n])
            IN  \E o \in k_min_heap_insert(vq_call.scores[op[1]][op[2]],
                                           vq_call.k, op[3], op[4], FALSE) :
                  vq_call' = [vq_call EXCEPT
                                !.scores[op[1]][op[2]] = o.heap,
                                !.todo[n] = Tail(@),
                                !.writing[n] = FALSE]
    /\ UNCHANGED <<vamanaVars, buildVars, ivfQueryVars, kmeans_frame, kmeans_q,
                   heap, heap_log, pc>>

\* range_for_each has returned: advance() of the blocked db, and either the
\* next pass or the end of the for (;;) loop.
VqParAdvance ==
    /\ pc = "vqpar_scan"
    /\ \A n \in DOMAIN vq_call.todo :
         vq_call.todo[n] = <<>> /\ ~vq_call.writing[n]
    /\ IF vq_call.block_db
          /\ vq_call.db_offset + vq_call.db_block < Size(vq_call.db)
       THEN /\ vq_call' = StartPass([vq_call EXCEPT
                                       !.db_offset = @ + vq_call.db_block])
            /\ pc' = "vqpar_scan"
       ELSE /\ vq_call' = vq_call
            /\ pc' = "vqpar_merge"
    /\ UNCHANGED <<vamanaVars, buildVars, ivfQueryVars, kmeans_frame, kmeans_q,
                   heap, heap_log>>

\* The entries of scores[n][j], n >= 1, in some order.
RECURSIVE MergeEntries(_, _, _)
MergeEntries(c, j, n) ==
    IF n >= c.nthreads THEN {<<>>}
    ELSE {a \o b : a \in DrainSorted(c.scores[n][j]),
                   b \in MergeEntries(c, j, n + 1)}

\* The merge loop: the calling thread inserts the entries of scores[n][j],
\* n >= 1, into scores[0][j].
VqParMerge ==
    /\ pc = "vqpar_merge"
    /\ \E s \in Choices([j \in DOMAIN vq_call.scores[0] |->
                           UNION {InsertAll(vq_call.scores[0][j], vq_call.k, es) :
                                    es \in MergeEntries(vq_call, j, 1)}]) :
         vq_call' = [vq_call EXCEPT !.scores[0] = s]
    /\ pc' = "vqpar_merged"
    /\ UNCHANGED <<vamanaVars, buildVars, ivfQueryVars, kmeans_frame, kmeans_q,
                   heap, heap_log>>

NextVqPar ==
    \/ VqParCall
    \/ WorkerInsertBegin
    \/ WorkerInsertEnd
    \/ VqParAdvance
    \/ VqParMerge

SpecVqPar == InitVq /\ [][NextVqPar]_vars

(***************************************************************************)
(* qv_query (flat_query.h) with its worker tasks.  The tasks are started   *)
(* by std::async(std::launch::async, ...) and write columns of top_k while *)
(* the calling thread goes on; the futures are never waited for in the     *)
(* body, so the tasks are joined when `return top_k` destroys futs: the    *)
(* destructor of a future obtained from std::async blocks until its task   *)
(* is over.  vq_call holds the call.                                       *)
(***************************************************************************)
\* [start, stop) of worker n: block_size = ceil(size_q / nthreads), both
\* ends capped at size_q.
QvRange(n, nthreads, size_q) ==
    LET block_size == (size_q + nthreads - 1) \div nthreads
    IN  [start |-> Min({n * block_size, size_q}),
         stop |-> Min({(n + 1) * block_size, size_q})]

\* Faulty variant: the destructor of futs does not wait for the tasks.
FutsDestroyed_NoWait(c) == TRUE

\* ~futs: every task that was started is over.
FutsDestroyed(c) == \A n \in DOMAIN c.tasks : c.tasks[n].at = c.tasks[n].stop

\* qv_query(db, q, k, nthreads): top_k is created, no task started yet.
QvCall ==
    /\ pc = "no_vq"
    /\ \E n \in 1 .. MaxParts, nq \in 1 .. NumQueries, k \in 1 .. MaxTopK,
          T \in 1 .. MaxThreads :
         \E dbm \in ZeroBased(n, Coords), q \in ZeroBased(nq, Coords) :
           vq_call' = [called |-> TRUE, db |-> dbm, q |-> q, k |-> k,
                       nthreads |-> T, n |-> 0,
                       tasks |-> <<>>,
                       top_k |-> [j \in 0 .. (nq - 1) |-> <<>>],
                       writes |-> [j \in 0 .. (nq - 1) |-> {}]]
    /\ pc' = "qv_spawn"
    /\ UNCHANGED <<vamanaVars, buildVars, ivfQueryVars, kmeans_frame, kmeans_q,
                   heap, heap_log>>

\* One iteration of `for (n = 0; n < nthreads; ++n)`: a task for [start,
\* stop) unless the range is empty.
QvSpawn ==
    /\ pc = "qv_spawn"
    /\ vq_call.n < vq_call.nthreads
    /\ LET r == QvRange(vq_call.n, vq_call.nthreads, Size(vq_call.q))
       IN  vq_call' =
             [vq_call EXCEPT
                !.n = @ + 1,
                !.tasks = IF r.start # r.stop
                          THEN Append(@, [start |-> r.start, stop |-> r.stop,
                                          at |-> r.start])
                          ELSE @]
    /\ UNCHANGED <<vamanaVars, buildVars, ivfQueryVars, kmeans_frame, kmeans_q,
                   heap, heap_log, pc>>

\* A task scores query column j = at against db and writes top_k[j].
QvTaskStep ==
    /\ pc = "qv_spawn"
    /\ \E t \in DOMAIN vq_call.tasks :
         /\ vq_call.tasks[t].at < vq_call.tasks[t].stop
         /\ \E col \in QvColumn(vq_call.db, vq_call.q[vq_call.tasks[t].at],
                                 vq_call.k) :
              vq_call' =
                [vq_call EXCEPT
                   !.top_k[vq_call.tasks[t].at] = col,
                   !.writes[vq_call.tasks[t].at] = @ \cup {t},
                   !.tasks[t].at = @ + 1]
    /\ UNCHANGED <<vamanaVars, buildVars, ivfQueryVars, kmeans_frame, kmeans_q,
                   heap, heap_log, pc>>

\* `return top_k`: the locals are destroyed, futs before top_k, and the
\* caller has the matrix.
QvReturn ==
    /\ pc = "qv_spawn"
    /\ vq_call.n = vq_call.nthreads
    /\ FutsDestroyed(vq_call)
    /\ pc' = "qv_returned"
    /\ UNCHANGED <<vamanaVars, buildVars, ivfQueryVars, flatVars>>

NextQv ==
    \/ QvCall
    \/ QvSpawn
    \/ QvTaskStep
    \/ QvReturn

SpecQv == InitVq /\ [][NextQv]_vars

(***************************************************************************)
(* Properties.                                                             *)
(***************************************************************************)
Trained == pc \in {"trained", "query_search"}
Training == pc \in {"train_search", "train_backedges"}

\* C1.  Degree bound: during and after train() every node has out-degree at
\* most R_max_degree_.
C1_DegreeBound ==
    (Training \/ Trained) =>
      \A n \in Nodes : out_degree(graph_, n) <= R_max_degree_

\* C2.  Well-formed adjacency: during and after train() no adjacency list
\* holds its own node, and none holds a target id twice.
C2_NoSelfLoopNoDuplicate ==
    (Training \/ Trained) =>
      \A n \in Nodes :
        /\ n \notin TargetIds(graph_[n])
        /\ Cardinality(TargetIds(graph_[n])) = Len(graph_[n])

\* A training state after a back-edge step in which robust_prune and add_edge
\* have both filled lists, one of them with two neighbors.
C2_Witness ==
    /\ pc = "train_backedges"
    /\ be > 1
    /\ p > 0
    /\ \E n \in Nodes : Len(graph_[n]) >= 2
    /\ \A n \in Nodes : Len(graph_[n]) >= 1

SearchDone == pc = "returned"
SourceUnique ==
    \A n \in Nodes \ {last_query.source} :
      feature_vectors_[n] # feature_vectors_[last_query.source]

\* C3 as stated.  greedy_search(G, DB, s, DB[s], k, L) returns s as the
\* first element of the top-k with score 0, and s is in the visited set.
C3_SourceFirst ==
    SearchDone =>
      /\ last_query.top_k[1] = last_query.source
      /\ last_query.top_k_scores[1] = 0
      /\ last_query.source \in last_query.visited

\* C3 as amended.  The first element of the top-k has score 0 and s is in
\* the visited set; s is the first element when no other node has the
\* vector DB[s], and s is in the top-k when k = L.
C3_SourceFirstWhenUnique ==
    SearchDone =>
      /\ last_query.top_k_scores[1] = 0
      /\ last_query.source \in last_query.visited
      /\ SourceUnique => last_query.top_k[1] = last_query.source
      /\ last_query.k_nn = last_query.L =>
           \E i \in 1 .. last_query.k_nn :
             last_query.top_k[i] = last_query.source

\* A search for k_nn >= 2 that expanded other nodes than s, from a source
\* whose vector no other node has.
C3_Witness ==
    /\ SearchDone
    /\ SourceUnique
    /\ Cardinality(last_query.visited) >= 2
    /\ last_query.top_k[1] = last_query.source
    /\ last_query.k_nn >= 2

QueryDone == pc = "trained" /\ last_query.k_nn > 0
IsQueryOf(n) == feature_vectors_[n] = last_query.query
VectorUnique(n) ==
    \A m \in Nodes \ {n} : feature_vectors_[m] # feature_vectors_[n]

\* C4 as stated.  After train(), query(F[n], k) returns n as its top-1 id,
\* for every training vector F[n].
C4_SelfRecall ==
    QueryDone =>
      \A n \in Nodes : IsQueryOf(n) => last_query.top_k[1] = n

\* C4 as amended.  After train(), query(F[n], k) returns n as its top-1 id,
\* with score 0, when the search visits n and no other training vector
\* equals F[n].
C4_SelfRecallWhenVisited ==
    QueryDone =>
      \A n \in Nodes :
        (IsQueryOf(n) /\ VectorUnique(n) /\ n \in last_query.visited) =>
          /\ last_query.top_k[1] = n
          /\ last_query.top_k_scores[1] = 0

\* A query for the vector of a node other than the medioid that the search
\* reached and returned first.
C4_Witness ==
    /\ QueryDone
    /\ \E n \in Nodes \ {medioid_} :
         /\ IsQueryOf(n)
         /\ VectorUnique(n)
         /\ n \in last_query.visited
         /\ last_query.top_k[1] = n

\* C5 as stated.  After write_index, the loaded index equals the index that
\* was written: the metadata, the feature vectors, the adjacency lists.
C5_RoundTripAfterWrite ==
    (write_result # "none" /\ loaded.exists) => loaded = ThisIndex

\* C5 as amended.  After a write_index that returned true, the loaded index
\* equals the index that was written.
C5_RoundTripAfterSuccessfulWrite ==
    (write_result = "true" /\ loaded.exists) => loaded = ThisIndex

\* A successful write, loaded back, of a graph with a list of two neighbors
\* that differs from the earlier index.
C5_Witness ==
    /\ write_result = "true"
    /\ loaded.exists
    /\ loaded.graph_ = graph_
    /\ \E n \in Nodes : Len(graph_[n]) >= 2
    /\ ThisIndex # EarlierIndex

PrunedTwice == pc = "pruned_twice"
EdgeSet(edges) == {edges[i] : i \in 1 .. Len(edges)}
DistinctScores(V) == \A x \in V, y \in V : x # y => x[1] # y[1]

\* C6 as stated.  A second robust_prune with the same arguments leaves
\* N_out(p) with the same targets and scores.
C6_PruneIdempotent ==
    PrunedTwice =>
      EdgeSet(graph_[prune_call.p]) = EdgeSet(prune_call.first)

\* C6 as amended.  A second robust_prune with the same arguments leaves
\* N_out(p) unchanged when the candidates of the first call have pairwise
\* distinct scores.
C6_PruneIdempotentDistinctScores ==
    (PrunedTwice /\ DistinctScores(prune_call.cands)) =>
      graph_[prune_call.p] = prune_call.first

\* Two calls on distinct scores where the first call, not stopped by R, kept
\* one of two candidates, one of them an earlier neighbor outside V_in.
C6_Witness ==
    /\ PrunedTwice
    /\ DistinctScores(prune_call.cands)
    /\ prune_call.R # 1
    /\ Len(prune_call.first) >= 1
    /\ Cardinality(prune_call.cands) > Len(prune_call.first)
    /\ \E c \in prune_call.cands : c[2] \notin prune_call.V_in
    /\ graph_[prune_call.p] = prune_call.first

IvfBuilt == pc \in {"ivf_built", "ivf_loaded"}
NumPartitions == Size(centroids_)
NumDb == Size(ivf_db)

IndexVectorOk(ix) ==
    /\ DOMAIN ix = 0 .. NumPartitions
    /\ ix[0] = 0
    /\ ix[NumPartitions] = NumDb
    /\ \A j \in 0 .. (NumPartitions - 1) : ix[j] <= ix[j + 1]

\* C7.  The index vector of the build, and the one the driver reads (also
\* from sizes), has length K + 1, starts at 0, ends at N and is monotone.
C7_IndexVector ==
    /\ IvfBuilt => IndexVectorOk(indices_)
    /\ pc = "ivf_loaded" => IndexVectorOk(indices)

\* An index vector read from sizes, with an empty and a non-empty partition.
C7_Witness ==
    /\ pc = "ivf_loaded"
    /\ size_index
    /\ IndexVectorOk(indices)
    /\ NumDb >= 2
    /\ \E j \in 0 .. (NumPartitions - 1) : indices[j] = indices[j + 1]
    /\ \E j \in 0 .. (NumPartitions - 1) : indices[j] < indices[j + 1]

\* C8.  shuffled_ids holds every value of [0, N) exactly once; during the
\* shuffle every iteration writes a slot no earlier iteration wrote.
C8_ShuffledIdsPermutation ==
    /\ IvfBuilt =>
         /\ DOMAIN shuffled_ids_ = 0 .. (NumDb - 1)
         /\ \A v \in 0 .. (NumDb - 1) :
              Cardinality({s \in DOMAIN shuffled_ids_ : shuffled_ids_[s] = v}) = 1
    /\ pc = "ivf_shuffle" =>
         Cardinality({s \in DOMAIN add_frame.shuffled_db :
                        add_frame.shuffled_db[s] # Unwritten}) = add_frame.i

\* A built index whose shuffle moved a vector.
C8_Witness ==
    /\ IvfBuilt
    /\ NumDb >= 2
    /\ \E s \in DOMAIN shuffled_ids_ : shuffled_ids_[s] # s

\* C9.  Every slot s of [indices[j], indices[j+1]) holds the database column
\* shuffled_ids[s], and partition j is that column's nearest centroid.
C9_PartitionContiguity ==
    IvfBuilt =>
      \A j \in 0 .. (NumPartitions - 1) :
        \A s \in indices_[j] .. (indices_[j + 1] - 1) :
          /\ shuffled_db_[s] = ivf_db[shuffled_ids_[s]]
          /\ \A c \in 0 .. (NumPartitions - 1) :
               sum_of_squares(ivf_db[shuffled_ids_[s]], centroids_[j])
                 <= sum_of_squares(ivf_db[shuffled_ids_[s]], centroids_[c])
          /\ \A c \in 0 .. (j - 1) :
               sum_of_squares(ivf_db[shuffled_ids_[s]], centroids_[j])
                 < sum_of_squares(ivf_db[shuffled_ids_[s]], centroids_[c])

\* A built index with two non-empty partitions whose columns were moved.
C9_Witness ==
    /\ IvfBuilt
    /\ NumPartitions >= 2
    /\ \A j \in 0 .. (NumPartitions - 1) : indices_[j] < indices_[j + 1]
    /\ \E s \in DOMAIN shuffled_ids_ : shuffled_ids_[s] # s
    /\ \E s \in DOMAIN shuffled_db_, t \in DOMAIN shuffled_db_ :
         shuffled_db_[s] # shuffled_db_[t]

BothQueriesDone == pc = "ivf_finite_done"
Candidates(j) == UNION {PartitionSlots(c) : c \in ivf_query.top_centroids[j]}
CandidateDistancesDistinct(j) ==
    \A a \in Candidates(j), b \in Candidates(j) :
      a # b => sum_of_squares(ivf_query.q[j], shuffled_db_[a])
                 # sum_of_squares(ivf_query.q[j], shuffled_db_[b])

\* C10.  For every query whose candidate distances are distinct, the
\* finite-RAM query returns the same set of ids as the infinite-RAM query,
\* for every block size.
C10_FiniteEqualsInfinite ==
    BothQueriesDone =>
      \A j \in DOMAIN ivf_query.q :
        CandidateDistancesDistinct(j) => fin_top_k[j] = inf_top_k[j]

\* A query streamed in several blocks with more candidates than k_nn, all at
\* distinct distances, from a partition that spans two blocks.
C10_Witness ==
    /\ BothQueriesDone
    /\ fin_frame.blocksize < NumDb
    /\ \E j \in DOMAIN ivf_query.q :
         /\ CandidateDistancesDistinct(j)
         /\ Cardinality(Candidates(j)) > ivf_query.k_nn
         /\ fin_top_k[j] = inf_top_k[j]
         /\ \E c \in ivf_query.top_centroids[j] :
              \E a \in PartitionSlots(c), b \in PartitionSlots(c) :
                (a \div fin_frame.blocksize) # (b \div fin_frame.blocksize)

BackEdgeDone == pc = "train_backedges" /\ back_edge.exists
BackEdgeUnion == {back_edge.p} \cup TargetIds(back_edge.out_edges)

\* C15.  Back-edge step: the candidates handed on for j are exactly p and the
\* out-neighbors of j; robust_prune runs on j exactly when |{p} + N_out(j)|
\* exceeds R_max_degree_; otherwise the edge j -> p is added with the score
\* L2(F[p], F[j]).
C15_BackEdgeCandidates ==
    BackEdgeDone =>
      /\ SeqRange(back_edge.tmp) = BackEdgeUnion
      /\ back_edge.pruned <=> Cardinality(BackEdgeUnion) > R_max_degree_
      /\ ~back_edge.pruned =>
           \E i \in 1 .. Len(graph_[back_edge.j]) :
             graph_[back_edge.j][i] =
               <<sum_of_squares(feature_vectors_[back_edge.p],
                                feature_vectors_[back_edge.j]), back_edge.p>>

TrainingDistinct ==
    \A a \in Nodes, b \in Nodes : a # b => training_set[a] # training_set[b]

\* Every centroid equals exactly one training vector and no two centroids
\* are identical.
CentroidsDistinctTrainingVectors ==
    /\ \A i \in DOMAIN centroids_ :
         Cardinality({n \in Nodes : Column(training_set, n) = centroids_[i]}) = 1
    /\ \A i \in DOMAIN centroids_, j \in DOMAIN centroids_ :
         i # j => centroids_[i] # centroids_[j]

\* C11.  After kmeans_pp on pairwise-distinct training vectors (at least K of
\* them) every centroid equals exactly one training vector and no two
\* centroids are identical, whatever the random choices.
C11_KmeansPpCoverage ==
    (pc = "kmeans_pp_done" /\ TrainingDistinct /\ NumNodes >= nlist_)
      => CentroidsDistinctTrainingVectors

\* kmeans_pp has chosen two centroids among distinct training vectors, the
\* second one by its weight.
C11_Witness ==
    /\ pc = "kmeans_pp_done"
    /\ TrainingDistinct
    /\ nlist_ >= 2
    /\ kmeans_frame.i = nlist_
    /\ \E n \in Nodes : kmeans_frame.distances[n] > 0
    /\ CentroidsDistinctTrainingVectors

\* C12.  After kmeans_random_init on pairwise-distinct training vectors (at
\* least K of them) every centroid equals exactly one training vector and no
\* two centroids are identical.
C12_RandomInitDistinct ==
    (pc = "kmeans_random_done" /\ TrainingDistinct /\ NumNodes >= nlist_)
      => CentroidsDistinctTrainingVectors

\* C18.  A centroid that receives no training vector in a Lloyd iteration
\* keeps the value it had before the iteration.
C18_EmptyClusterKept ==
    pc = "kmeans_lloyd" =>
      \A j \in DOMAIN centroids_ :
        kmeans_frame.degrees[j] = 0 => centroids_[j] = kmeans_frame.before[j]

HeapInUse == pc = "heap"
NumInserts == BagCardinality(heap_log.scores)
HeapDropped == heap_log.scores (-) heap

\* C13.  After any sequence of inserts a heap of capacity k holds
\* min(k, number of inserts) entries, their scores are the smallest scores
\* inserted so far, and an insert into a full heap of a score that is not
\* below the maximum leaves the heap unchanged.
C13_HeapHoldsSmallest ==
    HeapInUse =>
      /\ BagCardinality(heap) = Min({heap_log.k, NumInserts})
      /\ heap \sqsubseteq heap_log.scores
      /\ \A e \in BagToSet(HeapDropped), x \in BagToSet(heap) : x[1] <= e[1]
      /\ (/\ NumInserts > 0
          /\ BagCardinality(heap_log.last[3]) = heap_log.k
          /\ heap_log.last[1] >= HeapMaxScore(heap_log.last[3]))
           => heap = heap_log.last[3]

\* A full heap that has replaced an entry, and whose last insert, of the
\* maximal score, was a no-op.
C13_Witness ==
    /\ HeapInUse
    /\ NumInserts > heap_log.k
    /\ \E e \in BagToSet(HeapDropped) : e[1] > HeapMaxScore(heap)
    /\ heap_log.last[1] = HeapMaxScore(heap)
    /\ heap = heap_log.last[3]

\* The ids are pairwise distinct, the scores are non-decreasing, and each score
\* is the distance from the query to the id next to it.
TopKShape(r) ==
    /\ \A a \in 1 .. r.k_nn, b \in 1 .. r.k_nn : a # b => r.top_k[a] # r.top_k[b]
    /\ \A a \in 1 .. r.k_nn, b \in 1 .. r.k_nn :
         a < b => r.top_k_scores[a] <= r.top_k_scores[b]
    /\ \A a \in 1 .. r.k_nn :
         r.top_k_scores[a] = sum_of_squares(feature_vectors_[r.top_k[a]], r.query)

\* C14.  For every graph, source, query and k <= L the k ids returned by
\* greedy_search are pairwise distinct and in non-decreasing order of their
\* scores, each score being the distance from the query to the id.
C14_TopKShape ==
    (pc = "returned" /\ last_query.k_nn <= last_query.L) => TopKShape(last_query)

\* C20.  greedy_search called with L < k never returns a top-k result.
C20_NoResultWhenLBelowK ==
    ~(pc = "returned" /\ last_query.L < last_query.k_nn)

KmeansQueryDone == pc = "kmeans_query_done"
BuiltSlots(c) == indices_[c] .. (indices_[c + 1] - 1)
Gathered == SeqRange(kmeans_q.slots)

\* The columns reported for query j: the gathered columns that the written
\* cells of kmeans_ids point at.
ReportedSlots(j) ==
    {kmeans_q.slots[kmeans_q.kmeans_ids[j][i] + 1] :
       i \in {x \in 0 .. (kmeans_q.k_nn - 1) : kmeans_q.kmeans_ids[j][x] # Unwritten}}

\* The sets of nprobe centroids nearest to the query vector qv.
NearestCentroids(qv, nprobe) ==
    {S \in SUBSET (DOMAIN centroids_) :
       /\ Cardinality(S) = nprobe
       /\ \A a \in S, b \in (DOMAIN centroids_) \ S :
            sum_of_squares(qv, centroids_[a]) <= sum_of_squares(qv, centroids_[b])}

\* C16.  For every query column (not only the first) the candidates searched
\* are the column ranges of its own nprobe nearest centroids, and the ids
\* reported are those of the k_nn nearest candidates.
C16_ProbesPerQuery ==
    (KmeansQueryDone /\ kmeans_q.nprobe <= NumPartitions) =>
      \A j \in DOMAIN kmeans_q.q :
        /\ \E S \in NearestCentroids(kmeans_q.q[j], kmeans_q.nprobe) :
             Gathered = UNION {BuiltSlots(c) : c \in S}
        /\ Cardinality(ReportedSlots(j))
             = Min({kmeans_q.k_nn, Cardinality(Gathered)})
        /\ \A a \in ReportedSlots(j), b \in Gathered \ ReportedSlots(j) :
             sum_of_squares(kmeans_q.q[j], shuffled_db_[a])
               <= sum_of_squares(kmeans_q.q[j], shuffled_db_[b])

\* C17.  With nprobe > K each of the K partitions is probed once and no
\* column is gathered more than once, as with nprobe = K.
C17_NprobeClamped ==
    (KmeansQueryDone /\ kmeans_q.nprobe > NumPartitions) =>
      /\ \A c \in DOMAIN centroids_ :
           Cardinality({i \in DOMAIN kmeans_q.top_top_k :
                          kmeans_q.top_top_k[i] = c}) = 1
      /\ Len(kmeans_q.slots) = NumDb
      /\ Gathered = DOMAIN shuffled_db_

BothBlocked == vq_call.called /\ vq_call.block_db /\ vq_call.block_q

\* C19.  When both the database and the query matrix are blocked,
\* vq_query_heap fails before any distance is computed or any heap is
\* created or modified, and returns no result.
C19_RejectsDoubleBlocking ==
    BothBlocked =>
      /\ pc = "vq_threw"
      /\ vq_call.threw
      /\ vq_call.n_dist = 0
      /\ vq_call.scores = <<>>
      /\ vq_call.top_k = <<>>

\* A call with both matrices blocked, in blocks smaller than the matrices,
\* has thrown.
C19_Witness ==
    /\ BothBlocked
    /\ pc = "vq_threw"
    /\ vq_call.db_block < Size(vq_call.db)
    /\ vq_call.q_block < Size(vq_call.q)

\* Every result a complete run of greedy_search can return from frame f.
RECURSIVE SearchResults(_, _, _)
SearchResults(g, db, f) ==
    IF f.q1 = EmptyBag
    THEN GreedyResult(f)
    ELSE UNION {SearchResults(g, db, f2) : f2 \in GreedyIterate(g, db, f)}

\* A step taken while the index is trained keeps the index and, when it is
\* the return of a query, returns a result of greedy_search on that index.
QueryStepKeepsIndex ==
    (pc \in {"trained", "query_search"}) =>
      (/\ UNCHANGED <<graph_, feature_vectors_, medioid_, num_vectors_,
                      dimension_, L_build_, R_max_degree_, B_backtrack_>>
       /\ ((pc = "query_search" /\ pc' = "trained") =>
             (last_query' \in
                SearchResults(graph_', feature_vectors_',
                              GreedyInit(feature_vectors_', medioid_',
                                         last_query'.query, last_query'.k_nn,
                                         L_build_')))))

\* C21: no step of a query (its start, an iteration of its search, its
\* return) changes the adjacency lists, the feature vectors, the medioid or
\* the build parameters, and what a query returns is a result of
\* greedy_search on that unchanged index for the same arguments, so a
\* repeated query is answered from the same index.
C21_QueriesLeaveIndex ==
    [][QueryStepKeepsIndex]_vars

\* A query has returned after a search that expanded more than one node.
C21_Witness ==
    /\ QueryDone
    /\ Cardinality(last_query.visited) > 1

\* Every out-edge (p -> q, s) of g has s = sum_of_squares(F[p], F[q]).
ScoresAreDistances(g, F) ==
    \A n \in DOMAIN g : \A i \in 1 .. Len(g[n]) :
      g[n][i][1] = sum_of_squares(F[n], F[g[n][i][2]])

\* C23: in every state of train() and in every loaded index, the score
\* stored with an out-edge is the squared distance between the feature
\* vectors of its two ends (so the score robust_prune takes from
\* out_edges(p) is the distance it would compute).
C23_EdgeScoresAreDistances ==
    /\ pc # "constructed" => ScoresAreDistances(graph_, feature_vectors_)
    /\ loaded.exists => ScoresAreDistances(loaded.graph_, loaded.feature_vectors_)

\* The index of this training was written and loaded, and it has an edge of
\* positive score.
C23_Witness ==
    /\ loaded.exists
    /\ loaded.graph_ = graph_
    /\ loaded.feature_vectors_ = feature_vectors_
    /\ \E n \in Nodes : \E i \in 1 .. Len(graph_[n]) : graph_[n][i][1] > 0

\* An iteration of the search loop puts exactly one more node in visited.
ExpandsOneNode ==
    (pc = "search" /\ pc' = "search") =>
      (Cardinality(gs'.visited) = Cardinality(gs.visited) + 1)

\* C24: a greedy_search called with L >= k_nn on any graph, from any source
\* and for any query, leaves its while loop and returns; every iteration of
\* the loop expands one node not expanded before, so there are at most
\* NumNodes of them.
C24_SearchTerminates ==
    /\ [][ExpandsOneNode]_vars
    /\ (pc = "search" /\ gs.L >= gs.k_nn) ~> (pc = "returned")

\* A search has returned on a graph with a cycle 0 -> 1 -> 0, having
\* expanded both nodes of the cycle.
C24_Witness ==
    /\ pc = "returned"
    /\ 1 \in TargetIds(graph_[0])
    /\ 0 \in TargetIds(graph_[1])
    /\ {0, 1} \subseteq last_query.visited

\* The entries of q1 that the next iteration can pop as p_star.
Poppable == {x \in HeapEntries(gs.q1) : x[1] = HeapMinScore(gs.q1)}

\* C25: at the head of every iteration of the search loop, the node the
\* iteration pops is not in visited_vertices and is an entry of result, so
\* the branch that skips a visited p_star is not taken and no node is
\* expanded twice.
C25_PoppedIsUnvisitedAndInResult ==
    (pc = "search" /\ gs.q1 # EmptyBag) =>
      \A e \in Poppable :
        /\ e[2] \notin gs.visited
        /\ e[2] \in HeapIds(gs.result)

\* A loop head after at least one expansion, where q1 also holds a node that
\* has been evicted from result.
C25_Witness ==
    /\ pc = "search"
    /\ gs.visited # {}
    /\ gs.q1 # EmptyBag
    /\ \E e \in HeapEntries(gs.q1) : e[2] \notin HeapIds(gs.result)

\* C26: after robust_prune(graph, db, p, V_in, alpha, R), a neighbor b of p
\* selected after a neighbor a has alpha * distance(a, b) > distance(p, b),
\* and when there was a candidate, a candidate of minimal distance to p is a
\* neighbor of p.
C26_AlphaDiversity ==
    pc = "pruned" =>
      LET pn == prune_call.p
          F == feature_vectors_
          out == graph_[pn]
      IN  /\ \A i \in 1 .. Len(out) : \A j \in (i + 1) .. Len(out) :
               prune_call.alpha * sum_of_squares(F[out[i][2]], F[out[j][2]])
                 > 10 * sum_of_squares(F[pn], F[out[j][2]])
          /\ prune_call.cands # {} =>
               \E e \in prune_call.cands :
                 /\ e[1] = Min({x[1] : x \in prune_call.cands})
                 /\ e[2] \in TargetIds(out)

\* robust_prune with R = 2 has selected two neighbors with different
\* feature vectors.
C26_Witness ==
    /\ pc = "pruned"
    /\ Len(graph_[prune_call.p]) = 2
    /\ prune_call.R = 2
    /\ sum_of_squares(feature_vectors_[graph_[prune_call.p][1][2]],
                      feature_vectors_[graph_[prune_call.p][2][2]]) > 0

\* What a call of robust_prune for node pn with candidates V_in may change.
PruneFrame(pn, V_in) ==
    /\ \A n \in Nodes \ {pn} : graph_'[n] = graph_[n]
    /\ feature_vectors_' = feature_vectors_
    /\ TargetIds(graph_'[pn]) \subseteq
         ((V_in \cup TargetIds(graph_[pn])) \ {pn})

\* C27: a call of robust_prune for p changes no adjacency list but that of
\* p, leaves the feature vectors and the candidates as they were, and the
\* new neighbors of p are candidates or old neighbors of p, never p.
C27_PruneFrame ==
    [][/\ (pc = "graph" /\ pc' = "pruned") =>
            PruneFrame(prune_call'.p, prune_call'.V_in)
       /\ (pc = "pruned" /\ pc' = "pruned_twice") =>
            (PruneFrame(prune_call.p, prune_call.V_in)
               /\ prune_call' = prune_call)]_vars

\* robust_prune was called for a node p that was among its candidates and
\* that kept an old neighbor which was not a candidate, while another node
\* has out-edges.
C27_Witness ==
    /\ pc = "pruned"
    /\ prune_call.p \in prune_call.V_in
    /\ TargetIds(graph_[prune_call.p]) \ prune_call.V_in # {}
    /\ \E n \in Nodes \ {prune_call.p} : graph_[n] # <<>>

VqScanOver == vq_call.called /\ pc \in {"vq_merge", "vq_returned"}

\* C28: when vq_query_heap has left its for (;;) loop on a blocked database,
\* every pair of a query j and a database column c has been inserted exactly
\* once, into heap j and under the id c, and the loop has made one pass per
\* block; when neither matrix is blocked it has made exactly one pass.
C28_BlockedDbCoverage ==
    VqScanOver =>
      /\ vq_call.block_db =>
           /\ DOMAIN vq_call.offered = DOMAIN vq_call.q
           /\ \A j \in DOMAIN vq_call.q :
                /\ Len(vq_call.offered[j]) = Size(vq_call.db)
                /\ SeqRange(vq_call.offered[j]) = DOMAIN vq_call.db
           /\ (vq_call.passes - 1) * vq_call.db_block < Size(vq_call.db)
           /\ vq_call.passes * vq_call.db_block >= Size(vq_call.db)
      /\ (~vq_call.block_db /\ ~vq_call.block_q) => vq_call.passes = 1

\* A scan of a blocked database of three columns in blocks of two (the last
\* block is partial) for two queries has returned.
C28_Witness ==
    /\ pc = "vq_returned"
    /\ vq_call.block_db
    /\ Size(vq_call.db) = 3
    /\ vq_call.db_block = 2
    /\ Size(vq_call.q) = 2

\* C29: with a blocked query matrix, in every pass every heap index
\* j + q.offset(), j < size_q, is an index of the heaps allocated, and the
\* scan ends with one heap per query of the whole query set.
C29_QueryHeapIndexInBounds ==
    (vq_call.called /\ ~vq_call.threw /\ vq_call.block_q) =>
      /\ pc # "vq_undefined"
      /\ pc = "vq_scan" =>
           \A j \in 0 .. (vq_call.q_block - 1) :
             (j + vq_call.q_offset) \in DOMAIN vq_call.scores
      /\ pc \in {"vq_merge", "vq_returned"} =>
           DOMAIN vq_call.scores = 0 .. (Size(vq_call.q) - 1)

\* The heap (row, j) that worker n is inserting into, when it is.
WritingTo(n) == <<Head(vq_call.todo[n])[1], Head(vq_call.todo[n])[2]>>

Workers == DOMAIN vq_call.writing

TaskColumns(t) ==
    {j \in DOMAIN vq_call.q :
       vq_call.tasks[t].start <= j /\ j < vq_call.tasks[t].stop}

\* C30: the column ranges of the tasks qv_query has started are pairwise
\* disjoint and no column is written by two tasks; once every task is
\* started the ranges cover all query columns; and when the caller has the
\* returned matrix every task is over and every column has been written by
\* exactly one task.
C30_WorkersJoinedBeforeReturn ==
    (vq_call.called /\ pc \in {"qv_spawn", "qv_returned"}) =>
      /\ \A a \in DOMAIN vq_call.tasks, b \in DOMAIN vq_call.tasks :
           a # b => TaskColumns(a) \cap TaskColumns(b) = {}
      /\ \A j \in DOMAIN vq_call.q : Cardinality(vq_call.writes[j]) <= 1
      /\ vq_call.n = vq_call.nthreads =>
           UNION {TaskColumns(t) : t \in DOMAIN vq_call.tasks} = DOMAIN vq_call.q
      /\ pc = "qv_returned" =>
           /\ \A t \in DOMAIN vq_call.tasks :
                vq_call.tasks[t].at = vq_call.tasks[t].stop
           /\ \A j \in DOMAIN vq_call.q :
                /\ Cardinality(vq_call.writes[j]) = 1
                /\ vq_call.top_k[j] \in QvColumn(vq_call.db, vq_call.q[j],
                                                vq_call.k)

\* qv_query has returned a matrix of two columns written by two tasks.
C30_Witness ==
    /\ pc = "qv_returned"
    /\ Len(vq_call.tasks) = 2
    /\ vq_call.writes[0] # vq_call.writes[1]

=============================================================================
